---- MODULE Spec2Model ----
(***************************************************************************)
(* Model of the IMDB scraper's incremental collection engine:              *)
(*   - collect_metadata   (src/src/imdb_scraper/movie_metadata.py)         *)
(*   - collect_reviews    (src/src/imdb_scraper/movie_reviews.py)          *)
(*   - collect_single_movie_reviews, the review pagination engine          *)
(* The persisted metadata table (the "Progress Store") and the partition   *)
(* files are the durable state; everything else is process memory.         *)
(***************************************************************************)
EXTENDS Integers, Sequences, FiniteSets, TLC

\* ------------------------------------------------------------------ bounds
NumIds == 2
MaxBatch == 2
MaxPartitionSize == 2
MaxReviews == 2
MaxRuns == 2
MaxPages == 3
MaxRequests == 4
MaxGenres == 2
MaxRows == 2

\* ------------------------------------------------------- basic vocabulary
Ids == 1..NumIds

Null == "null"
Empty == "empty"
Value == "value"

\* keys of the dict returned by collect_single_movie_metadata
KEYS ==
  {"original_title", "genres", "director", "poster_url", "review_summary",
   "agg_rating", "actors", "imdb_recommendations", "details", "boxoffice"}

\* field helpers that return a (possibly empty) container instead of None
\* when nothing can be selected from the page
ContainerKeys ==
  {"review_summary", "actors", "imdb_recommendations", "details", "boxoffice"}

\* pages the site can answer with, described by the set of fields whose
\* selectors find nothing on them
MissingSets == {{}, {"director", "poster_url", "actors"}, KEYS}
Soups == [missing : MissingSets]

\* status codes of the error answers of the site (not found, rate limit)
ErrorStatuses == {"404", "503"}

\* what send_request hands to collect_single_movie_metadata: the status is
\* never looked at, and an error page matches none of the selectors
Pages ==
  {[status |-> "200", missing |-> m] : m \in MissingSets}
    \cup {[status |-> st, missing |-> KEYS] : st \in ErrorStatuses}

NoFields == [k \in {} |-> Null]

Perms(S) ==
  {s \in [1..Cardinality(S) -> S] :
     \A a, b \in 1..Cardinality(S) : a # b => s[a] # s[b]}

\* a not yet written metadata file
NoTable ==
  [exists |-> FALSE, index |-> <<>>, rows |-> [e \in {} |-> 0],
   has_cnt |-> FALSE]

\* ------------------------------------------------------------------ state
VARIABLES
  store,            \* persisted metadata table (s3_uri)
  partitions,       \* persisted partition files: number -> review chunks
  pc,               \* control point of the single process
  prog,             \* which entry point the current / last run executes
  runs,             \* number of runs started so far
  overwrite,        \* config['overwrite'] of the run
  read_ok,          \* whether pd.read_json succeeds on an existing file
  return_results,   \* argument of collect_reviews
  BATCH_SIZE,       \* movie_metadata.BATCH_SIZE
  pct_titles,       \* config['pct_titles'] / argument of collect_ids
  config_pct_reviews,  \* config['pct_reviews'] of a collect_reviews run
  partition_size,   \* config['partition_size']
  metadata,         \* in-memory DataFrame
  i,                \* loop position (number of index entries consumed)
  collected,        \* collect_metadata: ids collected since the last flush
  reviews,          \* collect_reviews: in-memory buffer
  collected_cnt,    \* collect_reviews: movies with >0 reviews in the buffer
  partition_num,    \* collect_reviews: number of the next partition
  loaded,           \* history: table as loaded / bootstrapped by the run
  requests,         \* history: number of fetches issued per id in the run
  succeeded,        \* history: ids whose collection returned in the run
  slept,            \* history: a sleep followed the last fetch attempt
  failed,           \* history: ids whose fetch raised in the run
  listed,           \* history: collect_ids was called in the run
  http_errors,      \* history: ids whose page came with an error status
  lost,             \* history: ids succeeded-but-unpersisted at last kill
  resumed,          \* history: the run started right after a killed run
  \* --- collect_single_movie_reviews, one invocation
  epc,                   \* control point of the engine
  feed,                  \* the site: review containers on each page
  pct_reviews,           \* argument
  res,                   \* last response (page number, 0 = unbound)
  movie_reviews_num,     \* result of get_reviews_total_count
  count_parsed,          \* history: the count page could be parsed
  reviews_num_max,       \* cutoff
  title_reviews,         \* number of accumulated records
  load_another_reviews,  \* loop flag
  pagination_key,        \* last extracted continuation key (0 = unbound)
  first_batch,           \* history: size of the first parsed batch
  last_batch,            \* history: size of the last parsed batch
  page_requests,         \* history: page requests issued (start + more)
  late_request,          \* history: a request was issued past the cutoff
  wire,                  \* history: requests and sleeps, in order
  \* --- collect_ids, one invocation
  ipc,                   \* control point of collect_ids
  genres,                \* argument: number of genres to list
  common,                \* the site: top positions shared by all genres
  genre,                 \* number of genres whose loop body has started
  total_titles_count,    \* result of get_total_count for the genre
  max_titles,            \* cutoff of the genre
  partition,             \* next start offset of range(1, max_titles+1, STEP)
  ids,                   \* accumulated set of identifiers
  count_requests,        \* history: count requests issued for the genre
  offsets,               \* history: start offsets fetched for the genre
  \* --- send_request, one call
  rpc,                   \* control point of the retrying call
  attempts,              \* history: outcome of every attempt so far
  response,              \* what the call hands to its caller
  \* --- one call of a table function
  cpc,                   \* control point of the call
  arg,                   \* its argument
  result,                \* its result
  \* --- concurrent collect_metadata processes on one store
  workers                \* memory of each process

vars ==
  <<store, partitions, pc, prog, runs, overwrite, read_ok, return_results,
    BATCH_SIZE, partition_size, metadata, i, collected, reviews,
    collected_cnt, partition_num, loaded, requests, succeeded, slept, failed, lost,
    resumed, epc, feed, pct_reviews, res, movie_reviews_num, count_parsed,
    reviews_num_max, title_reviews, load_another_reviews, pagination_key,
    first_batch, last_batch, page_requests, late_request, wire, pct_titles,
    config_pct_reviews,
    listed, http_errors, ipc, genres, common, genre, total_titles_count,
    max_titles, partition, ids, count_requests, offsets, rpc, attempts,
    response, cpc, arg, result, workers>>

persistent == <<store, partitions>>
config ==
  <<overwrite, read_ok, return_results, BATCH_SIZE, partition_size,
    pct_titles, config_pct_reviews>>
history == <<loaded, requests, succeeded, slept, failed, listed, http_errors>>
engine ==
  <<epc, feed, pct_reviews, res, movie_reviews_num, count_parsed,
    reviews_num_max, title_reviews, load_another_reviews, pagination_key,
    first_batch, last_batch, page_requests, late_request, wire>>
listing ==
  <<ipc, genres, common, genre, total_titles_count, max_titles, partition, ids,
    count_requests, offsets>>
net == <<rpc, attempts, response>>
calls == <<cpc, arg, result>>
pool == <<workers>>

\* everything outside the two collection loops
aside == <<engine, listing, net, calls, pool>>

Stopped == {"idle", "returned", "raised", "killed", "invalid"}

\* ------------------------------------------------------- pure operations

\* variant that leaves out the keys whose extraction found nothing
collect_single_movie_metadata_DropFailed(soup) ==
  [k \in KEYS \ soup.missing |-> Value]

\* collect_single_movie_metadata: always the same ten keys; a field whose
\* selector finds nothing is None, or an empty container for the helpers
\* that build a dict
collect_single_movie_metadata(soup) ==
  [k \in KEYS |->
     IF k \in soup.missing
       THEN (IF k \in ContainerKeys THEN Empty ELSE Null)
       ELSE Value]

\* for k, v in id_metadata.items():
\*     if k not in metadata.columns: metadata[k] = None
\*     metadata.at[id_, k] = v
MergeFields(tbl, id, id_metadata) ==
  [tbl EXCEPT !.rows =
     [e \in DOMAIN tbl.rows |->
        IF e = id
          THEN [tbl.rows[e] EXCEPT !.fields =
                  [k \in DOMAIN tbl.rows[e].fields \cup DOMAIN id_metadata |->
                     IF k \in DOMAIN id_metadata THEN id_metadata[k]
                     ELSE tbl.rows[e].fields[k]]]
          ELSE [tbl.rows[e] EXCEPT !.fields =
                  [k \in DOMAIN tbl.rows[e].fields \cup DOMAIN id_metadata |->
                     IF k \in DOMAIN tbl.rows[e].fields
                       THEN tbl.rows[e].fields[k] ELSE Null]]]]

\* variant that flags the whole column instead of the collected ids
MarkCollected_WholeColumn(tbl, cs) ==
  [tbl EXCEPT !.rows =
     [e \in DOMAIN tbl.rows |->
        [tbl.rows[e] EXCEPT !.metadata_collected_flg = TRUE]]]

\* variant that flags only the last collected id
MarkCollected_LastOnly(tbl, cs) ==
  [tbl EXCEPT !.rows =
     [e \in DOMAIN tbl.rows |->
        IF cs # <<>> /\ cs[Len(cs)] = e
          THEN [tbl.rows[e] EXCEPT !.metadata_collected_flg = TRUE]
          ELSE tbl.rows[e]]]

\* variant that flags only the first collected id
MarkCollected_FirstOnly(tbl, cs) ==
  [tbl EXCEPT !.rows =
     [e \in DOMAIN tbl.rows |->
        IF cs # <<>> /\ cs[1] = e
          THEN [tbl.rows[e] EXCEPT !.metadata_collected_flg = TRUE]
          ELSE tbl.rows[e]]]

\* for c in collected: metadata.at[c, 'metadata_collected_flg'] = True
MarkCollected(tbl, cs) ==
  [tbl EXCEPT !.rows =
     [e \in DOMAIN tbl.rows |->
        IF \E j \in 1..Len(cs) : cs[j] = e
          THEN [tbl.rows[e] EXCEPT !.metadata_collected_flg = TRUE]
          ELSE tbl.rows[e]]]

\* variant without the skip of line 133: every entity is fetched
AlreadyCollected_NoSkip(tbl, id) ==
  FALSE

\* if metadata.at[id_, 'metadata_collected_flg']: continue
AlreadyCollected(tbl, id) ==
  tbl.rows[id].metadata_collected_flg

\* variant that flushes only at the last index entry
FlushDue_LastOnly(coll, batch, pos, total) ==
  pos = total - 1

\* the flush test of line 150, evaluated after collected.append(id_) with
\* pos the 0-based enumerate position of the entity
FlushDue(coll, batch, pos, total) ==
  (Len(coll) = batch) \/ (pos = total - 1)

\* the table collect_metadata builds from the ids returned by collect_ids
InitialTable(order) ==
  [exists |-> TRUE,
   index |-> order,
   rows |-> [e \in {order[j] : j \in 1..Len(order)} |->
               [metadata_collected_flg |-> FALSE,
                reviews_collected_flg |-> FALSE,
                reviews_collected_cnt |-> 0,
                fields |-> NoFields]],
   has_cnt |-> FALSE]

\* metadata.to_json(s3_uri, orient='index'): one JSON object per index
\* entry, in index order, holding every column of the row
to_json(tbl) ==
  [exists |-> TRUE,
   index |-> tbl.index,
   rows |-> [e \in DOMAIN tbl.rows |-> tbl.rows[e]],
   has_cnt |-> tbl.has_cnt]

\* pd.read_json(s3_uri, orient='index'): rows keyed by the JSON keys, in
\* file order, columns are the keys of the row objects
read_json(file) ==
  [exists |-> TRUE,
   index |-> file.index,
   rows |-> [e \in {file.index[j] : j \in 1..Len(file.index)} |->
               file.rows[e]],
   has_cnt |-> file.has_cnt]

\* ------------------------------------------------------------------- Init
\* the store is either absent (first run) or holds the table a bootstrap
\* wrote for some set of discovered ids
\* no engine invocation in progress
EngineIdle ==
  /\ epc = "idle"
  /\ feed = <<>>
  /\ pct_reviews = 0
  /\ res = 0
  /\ movie_reviews_num = 0
  /\ count_parsed = TRUE
  /\ reviews_num_max = 0
  /\ title_reviews = 0
  /\ load_another_reviews = TRUE
  /\ pagination_key = 0
  /\ first_batch = -1
  /\ last_batch = -1
  /\ page_requests = 0
  /\ late_request = FALSE
  /\ wire = <<>>

\* no call of collect_ids in progress
ListingIdle ==
  /\ ipc = "idle"
  /\ genres = 0
  /\ common = 0
  /\ genre = 0
  /\ total_titles_count = 0
  /\ max_titles = 0
  /\ partition = 1
  /\ ids = {}
  /\ count_requests = 0
  /\ offsets = <<>>

\* no call of send_request in progress
NetIdle ==
  /\ rpc = "idle"
  /\ attempts = <<>>
  /\ response = "none"

\* no call of a table function in progress
CallsIdle ==
  /\ cpc = "idle"
  /\ arg = <<>>
  /\ result = <<>>

\* no second process on the store
PoolIdle ==
  workers = <<>>

\* the ids collect_ids discovers, in the order the table lists them; ids
\* are opaque, so the k discovered ids are named 1..k in table order
Discovered(k) ==
  [j \in 1..k |-> j]

\* the store is either absent (first run) or holds the table a bootstrap
\* wrote for the discovered ids
Init ==
  /\ config_pct_reviews = 0
  /\ EngineIdle
  /\ ListingIdle
  /\ NetIdle
  /\ CallsIdle
  /\ PoolIdle
  /\ pct_titles = 0
  /\ listed = FALSE
  /\ http_errors = {}
  /\ store \in {NoTable} \cup
               {to_json(InitialTable(Discovered(k))) : k \in 0..NumIds}
  /\ partitions = [p \in {} |-> <<>>]
  /\ pc = "idle"
  /\ prog = "none"
  /\ runs = 0
  /\ overwrite = FALSE
  /\ read_ok = TRUE
  /\ return_results = FALSE
  /\ BATCH_SIZE \in 1..MaxBatch
  /\ partition_size = 1
  /\ metadata = NoTable
  /\ i = 0
  /\ collected = <<>>
  /\ reviews = <<>>
  /\ collected_cnt = 0
  /\ partition_num = 1
  /\ loaded = NoTable
  /\ requests = [e \in Ids |-> 0]
  /\ succeeded = {}
  /\ slept = TRUE
  /\ failed = {}
  /\ lost = {}
  /\ resumed = FALSE

\* state common to the start of every run
StartRun(name) ==
  /\ pc \in Stopped
  /\ runs < MaxRuns
  /\ runs' = runs + 1
  /\ prog' = name
  /\ i' = 0
  /\ collected' = <<>>
  /\ reviews' = <<>>
  /\ collected_cnt' = 0
  /\ partition_num' = 1
  /\ requests' = [e \in Ids |-> 0]
  /\ succeeded' = {}
  /\ slept' = TRUE
  /\ failed' = {}
  /\ resumed' = (pc = "killed")
  /\ lost' = IF pc = "killed" THEN lost ELSE {}

\* the interpreter exits (return, uncaught exception or termination): the
\* process memory, its arguments and the history of the run are gone
ProcessGone ==
  /\ config_pct_reviews' = 0
  /\ prog' = "none"
  /\ overwrite' = FALSE
  /\ read_ok' = TRUE
  /\ return_results' = FALSE
  /\ partition_size' = 1
  /\ metadata' = NoTable
  /\ i' = 0
  /\ collected' = <<>>
  /\ reviews' = <<>>
  /\ collected_cnt' = 0
  /\ partition_num' = 1
  /\ loaded' = NoTable
  /\ requests' = [e \in Ids |-> 0]
  /\ succeeded' = {}
  /\ slept' = TRUE
  /\ failed' = {}
  /\ listed' = FALSE
  /\ http_errors' = {}
  /\ pct_titles' = 0
  /\ resumed' = FALSE
  /\ UNCHANGED <<persistent, runs, BATCH_SIZE>>

\* ------------------------------------------------------ collect_metadata

\* values of config['pct_titles']
PctTitles == {-1, 0, 100, 101}

\* variant without the upper limit
ValidPct_NoUpper(p) ==
  ~(p < 0)

\* line 80: if (config['pct_titles'] > 100) | (config['pct_titles'] < 0):
\*              raise ValueError
ValidPct(p) ==
  ~((p > 100) \/ (p < 0))

\* variant that always takes the except-branch
NeedBootstrap_Always(ow, exists, rok) ==
  TRUE

\* lines 94-108: the except-branch is taken when overwrite is set (the
\* ValueError of line 96) or when read_json raises (file absent or not
\* readable)
NeedBootstrap(ow, exists, rok) ==
  ow \/ ~exists \/ ~rok

\* lines 80-83: the configuration is rejected before anything else is done
MetadataInvalid ==
  /\ config_pct_reviews' = 0
  /\ pc \in Stopped
  /\ runs < MaxRuns
  /\ \E pct \in PctTitles :
       /\ ~ValidPct(pct)
       /\ pct_titles' = pct
  /\ runs' = runs + 1
  /\ pc' = "invalid"
  /\ prog' = "none"
  /\ lost' = {}
  /\ UNCHANGED <<persistent, overwrite, read_ok, return_results, BATCH_SIZE,
                 partition_size, metadata, i, collected, reviews,
                 collected_cnt, partition_num, history, resumed>>
  /\ UNCHANGED aside

\* try-branch of lines 94-107: the file is read
MetadataLoad ==
  /\ config_pct_reviews' = 0
  /\ StartRun("collect_metadata")
  /\ \E pct \in PctTitles :
       /\ ValidPct(pct)
       /\ pct_titles' = pct
  /\ ~NeedBootstrap(FALSE, store.exists, TRUE)
  /\ overwrite' = FALSE
  /\ read_ok' = TRUE
  /\ metadata' = read_json(store)
  /\ loaded' = metadata'
  /\ listed' = FALSE
  /\ http_errors' = {}
  /\ pc' = "metadata"
  /\ UNCHANGED <<persistent, return_results, BATCH_SIZE, partition_size>>
  /\ UNCHANGED aside

\* except-branch of lines 108-128: overwrite requested, file absent, or
\* read_json raised for any other reason; ids are collected and the fresh
\* table replaces the file
MetadataBootstrap ==
  /\ config_pct_reviews' = 0
  /\ StartRun("collect_metadata")
  /\ \E pct \in PctTitles :
       /\ ValidPct(pct)
       /\ pct_titles' = pct
  /\ \E ow \in BOOLEAN, rok \in BOOLEAN :
       /\ NeedBootstrap(ow, store.exists, rok)
       /\ (ow \/ ~store.exists) => rok
       /\ overwrite' = ow
       /\ read_ok' = rok
  /\ \E k \in 0..NumIds :
       /\ pct_titles' = 0 => k = 0
       /\ metadata' = InitialTable(Discovered(k))
       /\ store' = to_json(metadata')
  /\ loaded' = metadata'
  /\ listed' = TRUE
  /\ http_errors' = {}
  /\ pc' = "metadata"
  /\ UNCHANGED <<partitions, return_results, BATCH_SIZE, partition_size>>
  /\ UNCHANGED aside

\* collect_ids raises inside the except-branch (nothing catches it)
MetadataBootstrapRaises ==
  /\ config_pct_reviews' = 0
  /\ pc \in Stopped
  /\ runs < MaxRuns
  /\ \E pct \in PctTitles :
       /\ ValidPct(pct)
       /\ pct_titles' = pct
  /\ runs' = runs + 1
  /\ pc' = "raised"
  /\ prog' = "none"
  /\ lost' = {}
  /\ UNCHANGED <<persistent, overwrite, read_ok, return_results, BATCH_SIZE,
                 partition_size, metadata, i, collected, reviews,
                 collected_cnt, partition_num, history, resumed>>
  /\ UNCHANGED aside

\* lines 133-134: the entity is already collected
MetadataSkip ==
  /\ pc = "metadata"
  /\ i < Len(metadata.index)
  /\ AlreadyCollected(metadata, metadata.index[i + 1])
  /\ i' = i + 1
  /\ UNCHANGED <<persistent, pc, prog, runs, config, metadata, collected,
                 reviews, collected_cnt, partition_num, history, lost,
                 resumed>>
  /\ UNCHANGED aside

\* lines 137-142: collect_single_movie_metadata raises
MetadataFail ==
  /\ pc = "metadata"
  /\ slept' = FALSE
  /\ i < Len(metadata.index)
  /\ LET id_ == metadata.index[i + 1] IN
       /\ ~AlreadyCollected(metadata, id_)
       /\ requests' = [requests EXCEPT ![id_] = @ + 1]
       /\ failed' = failed \cup {id_}
  /\ i' = i + 1
  /\ UNCHANGED <<persistent, pc, prog, runs, config, metadata, collected,
                 reviews, collected_cnt, partition_num, loaded, listed,
                 http_errors, succeeded, lost, resumed>>
  /\ UNCHANGED aside

\* lines 137-150: the page is fetched (whatever its status), its fields
\* are merged, the id is appended to collected and the flush test is
\* evaluated
MetadataCollect ==
  /\ pc = "metadata"
  /\ i < Len(metadata.index)
  /\ LET id_ == metadata.index[i + 1] IN
       /\ ~AlreadyCollected(metadata, id_)
       /\ requests' = [requests EXCEPT ![id_] = @ + 1]
       /\ succeeded' = succeeded \cup {id_}
       /\ collected' = Append(collected, id_)
       /\ \E page \in Pages :
            /\ metadata' =
                 MergeFields(metadata, id_,
                             collect_single_movie_metadata(
                               [missing |-> page.missing]))
            /\ http_errors' =
                 IF page.status \in ErrorStatuses
                   THEN http_errors \cup {id_} ELSE http_errors
  /\ IF FlushDue(collected', BATCH_SIZE, i, Len(metadata.index))
       THEN pc' = "metadata_flush" /\ i' = i /\ slept' = FALSE
       ELSE pc' = "metadata" /\ i' = i + 1 /\ slept' = TRUE
  /\ UNCHANGED <<persistent, prog, runs, config, reviews, collected_cnt,
                 partition_num, loaded, listed, failed, lost, resumed>>
  /\ UNCHANGED aside

\* lines 151-165: the collected ids are flagged, the whole table is
\* written, collected is reset, and the loop moves on
MetadataFlush ==
  /\ pc = "metadata_flush"
  /\ metadata' = MarkCollected(metadata, collected)
  /\ store' = to_json(metadata')
  /\ collected' = <<>>
  /\ i' = i + 1
  /\ pc' = "metadata"
  /\ slept' = TRUE
  /\ UNCHANGED <<partitions, prog, runs, config, reviews, collected_cnt,
                 partition_num, loaded, requests, succeeded, failed, listed,
                 http_errors, lost, resumed>>
  /\ UNCHANGED aside

\* the for loop is exhausted and collect_metadata returns
MetadataReturn ==
  /\ pc = "metadata"
  /\ i = Len(metadata.index)
  /\ pc' = "returned"
  /\ ProcessGone
  /\ lost' = {}
  /\ UNCHANGED aside

\* ------------------------------------------------------- collect_reviews

\* variant that resets the review columns whatever config['overwrite'] is
PrepareReviews_AlwaysReset(file, order, ow) ==
  [exists |-> TRUE,
   index |-> order,
   rows |-> [e \in DOMAIN read_json(file).rows |->
               [read_json(file).rows[e] EXCEPT
                  !.reviews_collected_flg = FALSE,
                  !.reviews_collected_cnt = 0]],
   has_cnt |-> TRUE]

\* lines 87-99: the table is read, shuffled by sample(frac=1), the review
\* columns are added when missing and reset when overwrite is set
PrepareReviews(file, order, ow) ==
  [exists |-> TRUE,
   index |-> order,
   rows |-> [e \in DOMAIN read_json(file).rows |->
               LET r == read_json(file).rows[e] IN
                 [r EXCEPT
                    !.reviews_collected_flg =
                       IF ow THEN FALSE ELSE r.reviews_collected_flg,
                    !.reviews_collected_cnt =
                       IF ow \/ ~file.has_cnt THEN 0
                       ELSE r.reviews_collected_cnt]],
   has_cnt |-> TRUE]

\* variant that flushes only at the last index entry
ReviewsFlushDue_LastOnly(cnt, size, pos, total) ==
  pos = total

\* the flush test of lines 123-124, with cnt the number of entities that
\* contributed at least one review since the last flush and pos the 1-based
\* enumerate position of the entity
ReviewsFlushDue(cnt, size, pos, total) ==
  (cnt >= size) \/ (pos = total)

\* values of config['pct_reviews']; nothing in collect_reviews looks at the
\* value before it is handed to collect_single_movie_reviews (line 111)
ReviewsPcts == {-1, 50, 101}

ReviewsStart ==
  /\ config_pct_reviews' \in ReviewsPcts
  /\ StartRun("collect_reviews")
  /\ store.exists
  /\ read_ok' = TRUE
  /\ \E ow \in BOOLEAN, rr \in BOOLEAN, ps \in 1..MaxPartitionSize :
       /\ overwrite' = ow
       /\ return_results' = rr
       /\ partition_size' = ps
       /\ \E order \in Perms(DOMAIN store.rows) :
            metadata' = PrepareReviews(store, order, ow)
  /\ loaded' = metadata'
  /\ listed' = FALSE
  /\ http_errors' = {}
  /\ pct_titles' = 0
  /\ pc' = "reviews"
  /\ UNCHANGED <<persistent, BATCH_SIZE>>
  /\ UNCHANGED aside

\* pd.read_json raises (file absent or unreadable); nothing catches it
ReviewsReadRaises ==
  /\ config_pct_reviews' \in ReviewsPcts
  /\ pc \in Stopped
  /\ runs < MaxRuns
  /\ runs' = runs + 1
  /\ pc' = "raised"
  /\ prog' = "none"
  /\ lost' = {}
  /\ pct_titles' = 0
  /\ UNCHANGED <<persistent, overwrite, read_ok, return_results, BATCH_SIZE,
                 partition_size, metadata, i, collected, reviews,
                 collected_cnt, partition_num, history, resumed>>
  /\ UNCHANGED aside

\* lines 105-106: reviews of the entity are already collected
ReviewsSkip ==
  /\ pc = "reviews"
  /\ i < Len(metadata.index)
  /\ metadata.rows[metadata.index[i + 1]].reviews_collected_flg
  /\ i' = i + 1
  /\ UNCHANGED <<persistent, pc, prog, runs, config, metadata, collected,
                 reviews, collected_cnt, partition_num, history, lost,
                 resumed>>
  /\ UNCHANGED aside

\* line 110: collect_single_movie_reviews raises (see EngineRaise*); the
\* loop has no handler, so collect_reviews ends with the exception
ReviewsEngineRaises ==
  /\ pc = "reviews"
  /\ i < Len(metadata.index)
  /\ ~metadata.rows[metadata.index[i + 1]].reviews_collected_flg
  /\ ProcessGone
  /\ pc' = "raised"
  /\ UNCHANGED <<persistent, lost>>
  /\ UNCHANGED aside

\* lines 110-130: the engine returns n records for the entity (null_help:
\* one of them has helpfulness None); the row is flagged, and when the
\* threshold is reached or this is the last index entry, either the buffer
\* is returned (return_results) or the table is written to the store
ReviewsCollect ==
  /\ pc = "reviews"
  /\ i < Len(metadata.index)
  /\ LET movie_id == metadata.index[i + 1] IN
       /\ ~metadata.rows[movie_id].reviews_collected_flg
       /\ requests' = [requests EXCEPT ![movie_id] = @ + 1]
       /\ succeeded' = succeeded \cup {movie_id}
       /\ slept' = slept
       /\ \E num_reviews \in 0..MaxReviews, null_help \in BOOLEAN :
            /\ null_help => num_reviews > 0
            /\ reviews' =
                 IF num_reviews > 0
                   THEN Append(reviews, [movie_id |-> movie_id,
                                         n |-> num_reviews,
                                         null_help |-> null_help])
                   ELSE reviews
            /\ metadata' =
                 [metadata EXCEPT
                    !.rows[movie_id].reviews_collected_flg = TRUE,
                    !.rows[movie_id].reviews_collected_cnt = num_reviews]
            /\ collected_cnt' =
                 IF num_reviews > 0 THEN collected_cnt + 1 ELSE collected_cnt
  /\ i' = i + 1
  /\ IF ReviewsFlushDue(collected_cnt', partition_size, i',
                        Len(metadata.index))
       THEN IF return_results
              THEN pc' = "reviews_results" /\ UNCHANGED store
              ELSE pc' = "reviews_flush" /\ store' = to_json(metadata')
       ELSE UNCHANGED <<pc, store>>
  /\ UNCHANGED <<partitions, prog, runs, config, collected, partition_num,
                 loaded, listed, http_errors, failed, lost, resumed>>
  /\ UNCHANGED aside

\* the transform pipeline of lines 135-142 raises: split_helpfulness_col
\* finds no 'helpfulness' column in an empty frame, or the extracted
\* matches do not cover every row
PipelineRaises(revs) ==
  \/ revs = <<>>
  \/ \E j \in 1..Len(revs) : revs[j].null_help

\* variant that keeps the partition number after a flush
NextPartition_Stay(num) ==
  num

\* line 155: partition_num += 1
NextPartition(num) ==
  num + 1

\* lines 132-155, pipeline succeeds: the partition file is written, the
\* buffer and the counter are reset, the partition number is incremented
ReviewsWritePartition ==
  /\ pc = "reviews_flush"
  /\ ~PipelineRaises(reviews)
  /\ partitions' =
       [p \in DOMAIN partitions \cup {partition_num} |->
          IF p = partition_num THEN reviews ELSE partitions[p]]
  /\ reviews' = <<>>
  /\ collected_cnt' = 0
  /\ partition_num' = NextPartition(partition_num)
  /\ pc' = "reviews"
  /\ UNCHANGED <<store, prog, runs, config, metadata, i, collected, history,
                 lost, resumed>>
  /\ UNCHANGED aside

\* lines 135-142, pipeline raises: collect_reviews ends with the exception
\* after the table has been written
ReviewsPipelineRaises ==
  /\ pc = "reviews_flush"
  /\ PipelineRaises(reviews)
  /\ ProcessGone
  /\ pc' = "raised"
  /\ UNCHANGED <<persistent, lost>>
  /\ UNCHANGED aside

\* the for loop is exhausted and collect_reviews returns None
ReviewsReturn ==
  /\ pc = "reviews"
  /\ i = Len(metadata.index)
  /\ pc' = "returned"
  /\ ProcessGone
  /\ lost' = {}
  /\ UNCHANGED aside

\* lines 125-126: return reviews
ReviewsReturnResults ==
  /\ pc = "reviews_results"
  /\ pc' = "returned"
  /\ ProcessGone
  /\ lost' = {}
  /\ UNCHANGED aside

\* the process is terminated between two steps; memory is gone
Kill ==
  /\ pc \notin Stopped
  /\ pc' = "killed"
  /\ lost' = IF prog = "collect_metadata"
               THEN {e \in succeeded : ~store.rows[e].metadata_collected_flg}
               ELSE {}
  /\ ProcessGone
  /\ UNCHANGED aside

Next ==
  \/ MetadataInvalid
  \/ MetadataLoad
  \/ MetadataBootstrap
  \/ MetadataBootstrapRaises
  \/ MetadataSkip
  \/ MetadataFail
  \/ MetadataCollect
  \/ MetadataFlush
  \/ MetadataReturn
  \/ ReviewsStart
  \/ ReviewsReadRaises
  \/ ReviewsSkip
  \/ ReviewsEngineRaises
  \/ ReviewsCollect
  \/ ReviewsWritePartition
  \/ ReviewsPipelineRaises
  \/ ReviewsReturn
  \/ ReviewsReturnResults
  \/ Kill

Spec == Init /\ [][Next]_vars

\* runs of collect_metadata only
NextMetadata ==
  \/ MetadataInvalid
  \/ MetadataLoad
  \/ MetadataBootstrap
  \/ MetadataBootstrapRaises
  \/ MetadataSkip
  \/ MetadataFail
  \/ MetadataCollect
  \/ MetadataFlush
  \/ MetadataReturn
  \/ Kill

SpecMetadata == Init /\ [][NextMetadata]_vars

\* runs of collect_reviews only
NextReviews ==
  \/ ReviewsStart
  \/ ReviewsReadRaises
  \/ ReviewsSkip
  \/ ReviewsEngineRaises
  \/ ReviewsCollect
  \/ ReviewsWritePartition
  \/ ReviewsPipelineRaises
  \/ ReviewsReturn
  \/ ReviewsReturnResults
  \/ Kill

SpecReviews == Init /\ [][NextReviews]_vars

\* -------------------------------------------- collect_single_movie_reviews

\* values of the inputs of one engine invocation
BatchSizes == {0, 1, 2, 25}
Totals == {0, 1, 4, 200}
Pcts == {0, 10, 50, 100}

Feeds == UNION {[1..n -> BatchSizes] : n \in 1..MaxPages}

\* the two collection loops at rest, while one engine invocation is followed
LoopsIdle ==
  /\ store = NoTable
  /\ config_pct_reviews = 0
  /\ partitions = [p \in {} |-> <<>>]
  /\ pc = "idle"
  /\ prog = "none"
  /\ runs = 0
  /\ overwrite = FALSE
  /\ read_ok = TRUE
  /\ return_results = FALSE
  /\ BATCH_SIZE = 1
  /\ partition_size = 1
  /\ metadata = NoTable
  /\ i = 0
  /\ collected = <<>>
  /\ reviews = <<>>
  /\ collected_cnt = 0
  /\ partition_num = 1
  /\ loaded = NoTable
  /\ requests = [e \in Ids |-> 0]
  /\ succeeded = {}
  /\ slept = TRUE
  /\ failed = {}
  /\ lost = {}
  /\ resumed = FALSE
  /\ listed = FALSE
  /\ http_errors = {}

loops ==
  <<store, partitions, pc, prog, runs, overwrite, read_ok, return_results,
    BATCH_SIZE, partition_size, metadata, i, collected, reviews,
    collected_cnt, partition_num, loaded, requests, succeeded, slept, failed, lost,
    resumed, pct_titles, config_pct_reviews, listed, http_errors>>

\* reviews_num_max = int(movie_reviews_num * pct_reviews / 100)
ReviewsNumMax(num, pct) ==
  (num * pct) \div 100

\* len(soup.select('.review-container')) of the page held by a response
PageBatch(page) ==
  feed[page]

\* variant in which every page but the last carries the key of page 2
PageKey_Stale(page) ==
  IF page < Len(feed) THEN 2 ELSE 0

\* soup.select_one(".load-more-data[data-key]"): the key of the next page,
\* None (0) on the last page of the feed
PageKey(page) ==
  IF page < Len(feed) THEN page + 1 ELSE 0

\* variant that evaluates the cutoff before the batch is appended
AppendAndCheck_CheckFirst(acc, reviews_batch, limit) ==
  IF acc >= limit
    THEN [title_reviews |-> acc, break |-> TRUE]
    ELSE [title_reviews |-> acc + reviews_batch, break |-> FALSE]

\* variant that keeps only the last batch
AppendAndCheck_Replace(acc, reviews_batch, limit) ==
  [title_reviews |-> reviews_batch, break |-> reviews_batch > limit]

\* variant without the cutoff test
AppendAndCheck_NoCutoff(acc, reviews_batch, limit) ==
  [title_reviews |-> acc + reviews_batch, break |-> FALSE]

\* lines 268-275: title_reviews.extend(reviews_batch), then
\* if len(title_reviews) > reviews_num_max: break
AppendAndCheck(acc, reviews_batch, limit) ==
  [title_reviews |-> acc + reviews_batch,
   break |-> acc + reviews_batch > limit]

\* the page the count request is answered with: a header showing a count,
\* or a page whose header cannot be parsed
CountPages ==
  [parsable : {TRUE}, count : Totals] \cup [parsable : {FALSE}, count : {0}]

\* variant whose default is one review
get_reviews_total_count_DefaultOne(page) ==
  IF page.parsable THEN page.count ELSE 1

\* lines 317-329: the parsed count, or 0 when parsing raises
get_reviews_total_count(page) ==
  IF page.parsable THEN page.count ELSE 0

\* what goes over the wire: a request with its kind (start page, count
\* page, continuation link), whether it is sent through the session of the
\* entity, and the paginationKey it carries; or a sleep of SLEEP_TIME
NoKey == 0
Request(kind, session, key) ==
  [kind |-> kind, session |-> session, key |-> key]
Sleep == [kind |-> "sleep", session |-> FALSE, key |-> NoKey]

\* the state at the call of collect_single_movie_reviews
InitEngine ==
  /\ LoopsIdle
  /\ pct_titles = 0
  /\ ListingIdle
  /\ NetIdle
  /\ CallsIdle
  /\ PoolIdle
  /\ epc = "start"
  /\ feed \in Feeds
  /\ pct_reviews \in Pcts
  /\ res = 0
  /\ movie_reviews_num = 0
  /\ count_parsed = TRUE
  /\ reviews_num_max = 0
  /\ title_reviews = 0
  /\ load_another_reviews = TRUE
  /\ pagination_key = 0
  /\ first_batch = -1
  /\ last_batch = -1
  /\ page_requests = 0
  /\ late_request = FALSE
  /\ wire = <<>>

\* lines 245-246: the start request returns the first page
EngineStartOk ==
  /\ epc = "start"
  /\ wire' = Append(wire, Request("start", TRUE, NoKey))
  /\ res' = 1
  /\ page_requests' = page_requests + 1
  /\ epc' = "count"
  /\ UNCHANGED <<feed, pct_reviews, movie_reviews_num, count_parsed,
                 reviews_num_max,
                 title_reviews, load_another_reviews, pagination_key,
                 first_batch, last_batch, late_request>>
  /\ UNCHANGED <<loops, listing, net, calls, pool>>

\* lines 247-251: the start request raises; the exception is logged and
\* res stays unbound
EngineStartFails ==
  /\ epc = "start"
  /\ wire' = Append(wire, Request("start", TRUE, NoKey))
  /\ page_requests' = page_requests + 1
  /\ epc' = "count"
  /\ UNCHANGED <<feed, pct_reviews, res, movie_reviews_num, count_parsed,
                 reviews_num_max,
                 title_reviews, load_another_reviews, pagination_key,
                 first_batch, last_batch, late_request>>
  /\ UNCHANGED <<loops, listing, net, calls, pool>>

\* lines 253-257: get_reviews_total_count returns the parsed count, or 0
\* when the count cannot be parsed
EngineCount ==
  /\ epc = "count"
  /\ wire' = Append(wire, Request("count", FALSE, NoKey))
  /\ \E page \in CountPages :
       /\ movie_reviews_num' = get_reviews_total_count(page)
       /\ count_parsed' = page.parsable
       /\ reviews_num_max' =
            ReviewsNumMax(get_reviews_total_count(page), pct_reviews)
  /\ epc' = "loop"
  /\ UNCHANGED <<feed, pct_reviews, res, title_reviews, load_another_reviews,
                 pagination_key, first_batch, last_batch, page_requests,
                 late_request>>
  /\ UNCHANGED <<loops, listing, net, calls, pool>>

\* line 316: the request of get_reviews_total_count raises (outside its
\* try block); the exception leaves collect_single_movie_reviews
EngineCountRaises ==
  /\ epc = "count"
  /\ wire' = Append(wire, Request("count", FALSE, NoKey))
  /\ epc' = "raised"
  /\ UNCHANGED <<feed, pct_reviews, res, movie_reviews_num, count_parsed,
                 reviews_num_max,
                 title_reviews, load_another_reviews, pagination_key,
                 first_batch, last_batch, page_requests, late_request>>
  /\ UNCHANGED <<loops, listing, net, calls, pool>>

\* line 262 with res unbound: UnboundLocalError leaves the function
EngineUnbound ==
  /\ epc = "loop"
  /\ wire' = Append(wire, Sleep)
  /\ res = 0
  /\ epc' = "raised"
  /\ UNCHANGED <<feed, pct_reviews, res, movie_reviews_num, count_parsed,
                 reviews_num_max,
                 title_reviews, load_another_reviews, pagination_key,
                 first_batch, last_batch, page_requests, late_request>>
  /\ UNCHANGED <<loops, listing, net, calls, pool>>

\* lines 259-275: the batch of the current response is appended and the
\* accumulated count exceeds the cutoff: break
EngineBatchBreak ==
  /\ epc = "loop"
  /\ wire' = Append(wire, Sleep)
  /\ res # 0
  /\ LET r == AppendAndCheck(title_reviews, PageBatch(res), reviews_num_max)
     IN /\ r.break
        /\ title_reviews' = r.title_reviews
  /\ first_batch' = IF first_batch = -1 THEN PageBatch(res) ELSE first_batch
  /\ last_batch' = PageBatch(res)
  /\ epc' = "returned"
  /\ UNCHANGED <<feed, pct_reviews, res, movie_reviews_num, count_parsed,
                 reviews_num_max,
                 load_another_reviews, pagination_key, page_requests,
                 late_request>>
  /\ UNCHANGED <<loops, listing, net, calls, pool>>

\* lines 259-285: no break, and the page carries no continuation key:
\* load_another_reviews becomes False and the loop ends
EngineBatchExhausted ==
  /\ epc = "loop"
  /\ wire' = Append(wire, Sleep)
  /\ res # 0
  /\ LET r == AppendAndCheck(title_reviews, PageBatch(res), reviews_num_max)
     IN /\ ~r.break
        /\ title_reviews' = r.title_reviews
  /\ PageKey(res) = 0
  /\ first_batch' = IF first_batch = -1 THEN PageBatch(res) ELSE first_batch
  /\ last_batch' = PageBatch(res)
  /\ load_another_reviews' = FALSE
  /\ epc' = "returned"
  /\ UNCHANGED <<feed, pct_reviews, res, movie_reviews_num, count_parsed,
                 reviews_num_max,
                 pagination_key, page_requests, late_request>>
  /\ UNCHANGED <<loops, listing, net, calls, pool>>

\* lines 259-289: no break, and the page carries a continuation key
EngineBatchMore ==
  /\ epc = "loop"
  /\ wire' = Append(wire, Sleep)
  /\ res # 0
  /\ LET r == AppendAndCheck(title_reviews, PageBatch(res), reviews_num_max)
     IN /\ ~r.break
        /\ title_reviews' = r.title_reviews
  /\ PageKey(res) # 0
  /\ first_batch' = IF first_batch = -1 THEN PageBatch(res) ELSE first_batch
  /\ last_batch' = PageBatch(res)
  /\ pagination_key' = PageKey(res)
  /\ epc' = "more"
  /\ UNCHANGED <<feed, pct_reviews, res, movie_reviews_num, count_parsed,
                 reviews_num_max,
                 load_another_reviews, page_requests, late_request>>
  /\ UNCHANGED <<loops, listing, net, calls, pool>>

\* lines 290-291: the continuation request returns the page of the key
EngineContinueOk ==
  /\ epc = "more"
  /\ wire' = Append(wire, Request("link", FALSE, pagination_key))
  /\ page_requests < MaxRequests
  /\ res' = pagination_key
  /\ page_requests' = page_requests + 1
  /\ late_request' = (late_request \/ title_reviews > reviews_num_max)
  /\ epc' = "loop"
  /\ UNCHANGED <<feed, pct_reviews, movie_reviews_num, count_parsed,
                 reviews_num_max,
                 title_reviews, load_another_reviews, pagination_key,
                 first_batch, last_batch>>
  /\ UNCHANGED <<loops, listing, net, calls, pool>>

\* lines 292-296: the continuation request raises; the exception is logged
\* and res keeps the previous response
EngineContinueFails ==
  /\ epc = "more"
  /\ wire' = Append(wire, Request("link", FALSE, pagination_key))
  /\ page_requests < MaxRequests
  /\ page_requests' = page_requests + 1
  /\ late_request' = (late_request \/ title_reviews > reviews_num_max)
  /\ epc' = "loop"
  /\ UNCHANGED <<feed, pct_reviews, res, movie_reviews_num, count_parsed,
                 reviews_num_max,
                 title_reviews, load_another_reviews, pagination_key,
                 first_batch, last_batch>>
  /\ UNCHANGED <<loops, listing, net, calls, pool>>

NextEngine ==
  \/ EngineStartOk
  \/ EngineStartFails
  \/ EngineCount
  \/ EngineCountRaises
  \/ EngineUnbound
  \/ EngineBatchBreak
  \/ EngineBatchExhausted
  \/ EngineBatchMore
  \/ EngineContinueOk
  \/ EngineContinueFails

SpecEngine == InitEngine /\ [][NextEngine]_vars

\* the function is sequential code: as long as a step is possible the
\* interpreter takes one, every request returning or raising
SpecEngineFair == SpecEngine /\ WF_vars(NextEngine)

\* ------------------------------------------------------------ collect_ids

STEP == 50

\* catalog sizes a count request can report, and percentages
Catalogs == {0, 1, 50, 51, 120, 5000}
IdsPcts == {0, 1, 50, 100}

\* variant that rounds the cutoff down to whole pages
MaxTitles_WholePages(total, pct) ==
  (((total * pct) \div 100) \div STEP) * STEP

\* line 172: max_titles = int(total_titles_count * pct_titles / 100)
MaxTitles(total, pct) ==
  (total * pct) \div 100

\* variant whose range also yields the first offset past the cutoff
InRange_OneMore(offset, stop) ==
  offset < stop + STEP

\* line 173: range(1, max_titles + 1, STEP) yields offset while it is
\* below the stop value
InRange(offset, stop) ==
  offset < stop

\* the movie listed at a position of a genre's listing; the first `common'
\* positions of every genre list the same movies
Title(g, pos) ==
  IF pos <= common THEN <<0, pos>> ELSE <<g, pos>>

\* collect_ids_from_single_page: the hrefs of the listing page that starts
\* at offset, STEP items unless the listing ends before
PageItems(g, offset, total) ==
  {Title(g, pos) :
     pos \in offset..(IF offset + STEP - 1 < total
                        THEN offset + STEP - 1 ELSE total)}

\* variant in which meeting an identifier again removes it
update_Toggle(seen, new_ids) ==
  (seen \ new_ids) \cup (new_ids \ seen)

\* line 178: ids.update(new_ids), on a set
update(seen, new_ids) ==
  seen \cup new_ids

\* lines 114-120: one record per element of the set of ids
BootstrapRecords(seen) ==
  [id_ \in seen |->
     [metadata_collected_flg |-> FALSE, reviews_collected_flg |-> FALSE]]

\* the state at the call of collect_ids(genres, pct_titles, logger)
InitIds ==
  /\ LoopsIdle
  /\ EngineIdle
  /\ NetIdle
  /\ CallsIdle
  /\ PoolIdle
  /\ pct_titles \in IdsPcts
  /\ ipc = "genre"
  /\ genres \in 0..MaxGenres
  /\ common \in 0..1
  /\ genre = 0
  /\ total_titles_count = 0
  /\ max_titles = 0
  /\ partition = 1
  /\ ids = {}
  /\ count_requests = 0
  /\ offsets = <<>>

\* lines 170-173: the next genre is taken, its count is fetched and the
\* range of start offsets is built
IdsCount ==
  /\ ipc = "genre"
  /\ genre < genres
  /\ genre' = genre + 1
  /\ \E total \in Catalogs :
       /\ total_titles_count' = total
       /\ max_titles' = MaxTitles(total, pct_titles)
  /\ partition' = 1
  /\ count_requests' = 1
  /\ offsets' = <<>>
  /\ ipc' = "pages"
  /\ UNCHANGED <<genres, common, ids>>
  /\ UNCHANGED <<loops, engine, net, calls, pool>>

\* line 171: get_total_count raises (the request fails or the count cannot
\* be parsed); nothing in collect_ids catches it
IdsCountRaises ==
  /\ ipc = "genre"
  /\ genre < genres
  /\ genre' = genre + 1
  /\ count_requests' = 1
  /\ offsets' = <<>>
  /\ ipc' = "raised"
  /\ UNCHANGED <<genres, common, total_titles_count, max_titles, partition,
                 ids>>
  /\ UNCHANGED <<loops, engine, net, calls, pool>>

\* lines 174-183: the page starting at the next offset is fetched and its
\* ids are added
IdsPage ==
  /\ ipc = "pages"
  /\ InRange(partition, max_titles + 1)
  /\ ids' = update(ids, PageItems(genre, partition, total_titles_count))
  /\ offsets' = Append(offsets, partition)
  /\ partition' = partition + STEP
  /\ UNCHANGED <<ipc, genres, common, genre, total_titles_count, max_titles,
                 count_requests>>
  /\ UNCHANGED <<loops, engine, net, calls, pool>>

\* line 175: collect_ids_from_single_page raises
IdsPageRaises ==
  /\ ipc = "pages"
  /\ InRange(partition, max_titles + 1)
  /\ offsets' = Append(offsets, partition)
  /\ ipc' = "raised"
  /\ UNCHANGED <<genres, common, genre, total_titles_count, max_titles,
                 partition, ids, count_requests>>
  /\ UNCHANGED <<loops, engine, net, calls, pool>>

\* the range of the genre is exhausted
IdsGenreDone ==
  /\ ipc = "pages"
  /\ ~InRange(partition, max_titles + 1)
  /\ ipc' = "genre_done"
  /\ UNCHANGED <<genres, common, genre, total_titles_count, max_titles,
                 partition, ids, count_requests, offsets>>
  /\ UNCHANGED <<loops, engine, net, calls, pool>>

\* back to the for statement of line 170
IdsNextGenre ==
  /\ ipc = "genre_done"
  /\ ipc' = "genre"
  /\ UNCHANGED <<genres, common, genre, total_titles_count, max_titles,
                 partition, ids, count_requests, offsets>>
  /\ UNCHANGED <<loops, engine, net, calls, pool>>

\* line 184: return ids
IdsReturn ==
  /\ ipc = "genre"
  /\ genre = genres
  /\ ipc' = "returned"
  /\ UNCHANGED <<genres, common, genre, total_titles_count, max_titles,
                 partition, ids, count_requests, offsets>>
  /\ UNCHANGED <<loops, engine, net, calls, pool>>

NextIds ==
  \/ IdsCount
  \/ IdsCountRaises
  \/ IdsPage
  \/ IdsPageRaises
  \/ IdsGenreDone
  \/ IdsNextGenre
  \/ IdsReturn

SpecIds == InitIds /\ [][NextIds]_vars

\* ---------------------------------------------------- split_helpfulness_col

\* helpfulness texts a review container can carry, each with the integers a
\* reader finds embedded in it
HelpfulnessTexts ==
  {
   [chars |->
      <<"3", " ", "o", "f", " ", "5">>,
    ints |-> <<3, 5>>],
   [chars |->
      <<"1", ",", "2", "3", "4", " ", "o", "u", "t", " ", "o", "f", " ",
        "5", ",", "6", "7", "8", " ", "f", "o", "u", "n", "d">>,
    ints |-> <<1234, 5678>>],
   [chars |->
      <<"1", "2", ",", "3", "4", "5", " ", "o", "f", " ", "4", "0", ",",
        "0", "0", "0">>,
    ints |-> <<12345, 40000>>],
   [chars |->
      <<"1", "6", ",", "7", "7", "7", ",", "2", "1", "6", " ", "o", "f",
        " ", "1", "6", ",", "7", "7", "7", ",", "2", "1", "6">>,
    ints |-> <<16777216, 16777216>>],
   [chars |->
      <<"1", "6", ",", "7", "7", "7", ",", "2", "1", "7", " ", "o", "f", " ",
        "1", "6", ",", "7", "7", "7", ",", "2", "1", "9">>,
    ints |-> <<16777217, 16777219>>],
   [chars |->
      <<"n", "o", " ", "v", "o", "t", "e", "s">>,
    ints |-> <<>>],
   [chars |->
      <<"7", " ", "f", "o", "u", "n", "d">>,
    ints |-> <<7>>],
   [chars |->
      <<"1", " ", "2", " ", "3">>,
    ints |-> <<1, 2, 3>>]
  }

NoText == [chars |-> <<>>, ints |-> <<>>]

Digits == {"0", "1", "2", "3", "4", "5", "6", "7", "8", "9"}

DigitValue(c) ==
  CASE c = "0" -> 0 [] c = "1" -> 1 [] c = "2" -> 2 [] c = "3" -> 3
    [] c = "4" -> 4 [] c = "5" -> 5 [] c = "6" -> 6 [] c = "7" -> 7
    [] c = "8" -> 8 [] c = "9" -> 9

\* variant that keeps the thousands separators
RemoveCommas_Keep(t) ==
  t

\* .str.replace(',', '')
RemoveCommas(t) ==
  SelectSeq(t, LAMBDA c : c # ",")

RECURSIVE ExtractRuns(_, _, _)
\* .str.extractall('(\d+)'): the maximal runs of digits, left to right
\* (run: the digits of the run being read, acc: the runs already closed)
ExtractRuns(t, run, acc) ==
  IF t = <<>>
    THEN (IF run = <<>> THEN acc ELSE Append(acc, run))
    ELSE IF Head(t) \in Digits
           THEN ExtractRuns(Tail(t), Append(run, Head(t)), acc)
           ELSE ExtractRuns(Tail(t), <<>>,
                            IF run = <<>> THEN acc ELSE Append(acc, run))

RECURSIVE RunValue(_)
\* the number a run of digits denotes
RunValue(run) ==
  IF run = <<>> THEN 0
  ELSE 10 * RunValue(SubSeq(run, 1, Len(run) - 1))
         + DigitValue(run[Len(run)])

RECURSIVE Pow2Below(_, _)
\* the largest power of two (times q) that is at most n
Pow2Below(n, q) ==
  IF 2 * q > n THEN q ELSE Pow2Below(n, 2 * q)

\* 2^24: every integer up to it is a float32
Float32Exact == 16777216

\* .astype('float32'): a non-negative integer rounded to a 24-bit
\* significand, ties to even
Float32(n) ==
  IF n < Float32Exact THEN n
  ELSE LET ulp == Pow2Below(n, 1) \div 8388608
           low == n - (n % ulp)
       IN  IF 2 * (n % ulp) < ulp THEN low
           ELSE IF 2 * (n % ulp) > ulp THEN low + ulp
           ELSE IF (low \div ulp) % 2 = 0 THEN low ELSE low + ulp

NaN == "NaN"

\* the matches of one row: none for a missing text
RowMatches(row) ==
  IF row.helpfulness = NoText THEN <<>>
  ELSE ExtractRuns(RemoveCommas(row.helpfulness.chars), <<>>, <<>>)

\* the widest row of the unstacked matches
MatchColumns(df) ==
  CHOOSE w \in 0..16 :
    /\ \A j \in 1..Len(df.rows) : Len(RowMatches(df.rows[j])) <= w
    /\ \/ w = 0
       \/ \E j \in 1..Len(df.rows) : Len(RowMatches(df.rows[j])) = w

\* lines 164-175 raise: no helpfulness column, or the unstacked matches do
\* not have one row per input row and exactly two columns
SplitRaises(df) ==
  \/ ~df.has_helpfulness
  \/ \E j \in 1..Len(df.rows) : RowMatches(df.rows[j]) = <<>>
  \/ MatchColumns(df) # 2

\* lines 167-176: the two columns are assigned by position and the
\* helpfulness column is dropped
split_helpfulness_col(df) ==
  [rows |->
     [j \in 1..Len(df.rows) |->
        LET m == RowMatches(df.rows[j]) IN
          [rest |-> df.rows[j].rest,
           upvotes |-> Float32(RunValue(m[1])),
           total_votes |->
              IF Len(m) >= 2 THEN Float32(RunValue(m[2])) ELSE NaN]]]

\* frames of 1..MaxRows review records, with or without the column
SplitInputs ==
  UNION {
    {[has_helpfulness |-> TRUE,
      rows |-> [j \in 1..n |-> [rest |-> j, helpfulness |-> t[j]]]] :
        t \in [1..n -> HelpfulnessTexts \cup {NoText}]}
    \cup
    {[has_helpfulness |-> FALSE,
      rows |-> [j \in 1..n |-> [rest |-> j, helpfulness |-> NoText]]]}
    : n \in 1..MaxRows}

InitSplit ==
  /\ PoolIdle
  /\ LoopsIdle
  /\ pct_titles = 0
  /\ EngineIdle
  /\ ListingIdle
  /\ NetIdle
  /\ cpc = "call"
  /\ arg \in SplitInputs
  /\ result = <<>>

SplitReturn ==
  /\ cpc = "call"
  /\ ~SplitRaises(arg)
  /\ result' = split_helpfulness_col(arg)
  /\ cpc' = "returned"
  /\ UNCHANGED arg
  /\ UNCHANGED <<loops, engine, listing, net, pool>>

SplitRaise ==
  /\ cpc = "call"
  /\ SplitRaises(arg)
  /\ cpc' = "raised"
  /\ UNCHANGED <<arg, result>>
  /\ UNCHANGED <<loops, engine, listing, net, pool>>

NextSplit ==
  \/ SplitReturn
  \/ SplitRaise

SpecSplit == InitSplit /\ [][NextSplit]_vars

\* ------------------------------------------------------ change_review_dtypes

\* the largest value of dtype int16
INT16_MAX == 32767

\* a value above INT16_MAX reduced modulo 2^16 into the int16 range
Wrap16(v) ==
  ((v + INT16_MAX + 1) % (2 * (INT16_MAX + 1))) - (INT16_MAX + 1)

\* .astype('int16') of a column holding non-negative whole floats: a value
\* of the int16 range is kept; the cast of a larger one is undefined in
\* the C loop that numpy runs, and a build either truncates the 32-bit
\* conversion to 16 bits or saturates
Int16Casts(v) ==
  IF v <= INT16_MAX THEN {v} ELSE {Wrap16(v), INT16_MAX}

\* astype raises on a column with a missing value: the split of df_raw
\* left NaN in total_votes for a row with a single match (next to rows
\* with two)
AstypeRaises(df_raw) ==
  \E j \in 1..Len(df_raw.rows) : Len(RowMatches(df_raw.rows[j])) < 2

\* lines 208-213: the frames astype(type_mapping) can return
change_review_dtypes(df) ==
  {[rows |-> [j \in 1..Len(df.rows) |->
                [rest |-> df.rows[j].rest,
                 upvotes |-> c[j][1],
                 total_votes |-> c[j][2]]]] :
     c \in {f \in [1..Len(df.rows) ->
                     UNION {Int16Casts(df.rows[j].upvotes) \X
                            Int16Casts(df.rows[j].total_votes) :
                               j \in 1..Len(df.rows)}] :
              \A j \in 1..Len(df.rows) :
                 f[j] \in Int16Casts(df.rows[j].upvotes) \X
                          Int16Casts(df.rows[j].total_votes)}}

\* lines 135-148 of collect_reviews on the frame of the buffered records:
\* the split, then (the steps in between leave the two columns alone) the
\* change of dtypes, then to_csv
InitPipeline ==
  /\ PoolIdle
  /\ LoopsIdle
  /\ pct_titles = 0
  /\ EngineIdle
  /\ ListingIdle
  /\ NetIdle
  /\ cpc = "from_records"
  /\ arg \in SplitInputs
  /\ result = <<>>

PipelineSplit ==
  /\ cpc = "from_records"
  /\ ~SplitRaises(arg)
  /\ result' = split_helpfulness_col(arg)
  /\ cpc' = "split"
  /\ UNCHANGED arg
  /\ UNCHANGED <<loops, engine, listing, net, pool>>

PipelineSplitRaises ==
  /\ cpc = "from_records"
  /\ SplitRaises(arg)
  /\ cpc' = "raised"
  /\ UNCHANGED <<arg, result>>
  /\ UNCHANGED <<loops, engine, listing, net, pool>>

PipelineAstype ==
  /\ cpc = "split"
  /\ ~AstypeRaises(arg)
  /\ result' \in change_review_dtypes(result)
  /\ cpc' = "to_csv"
  /\ UNCHANGED arg
  /\ UNCHANGED <<loops, engine, listing, net, pool>>

PipelineAstypeRaises ==
  /\ cpc = "split"
  /\ AstypeRaises(arg)
  /\ cpc' = "raised"
  /\ UNCHANGED <<arg, result>>
  /\ UNCHANGED <<loops, engine, listing, net, pool>>

NextPipeline ==
  \/ PipelineSplit
  \/ PipelineSplitRaises
  \/ PipelineAstype
  \/ PipelineAstypeRaises

SpecPipeline == InitPipeline /\ [][NextPipeline]_vars

\* ------------------------------------------------ metadata file round trip

\* the index labels of the table: the title ids collect_ids returns
IdLabels == <<"tt1", "tt2", "tt3", "tt4", "tt5", "tt6">>
IdLabel(e) == IdLabels[e]

FLAGS == {"metadata_collected_flg", "reviews_collected_flg"}

\* the columns in the order the collectors add them
ColumnOrder ==
  <<"metadata_collected_flg", "reviews_collected_flg", "original_title",
    "genres", "director", "poster_url", "review_summary", "agg_rating",
    "actors", "imdb_recommendations", "details", "boxoffice",
    "reviews_collected_cnt">>

\* the columns of the entity table (from_dict of no ids has no columns)
FrameColumns(tbl) ==
  IF tbl.index = <<>> THEN {}
  ELSE FLAGS
         \cup (IF tbl.has_cnt THEN {"reviews_collected_cnt"} ELSE {})
         \cup UNION {DOMAIN tbl.rows[e].fields : e \in DOMAIN tbl.rows}

\* the cell of entity e in column c, as Python shows it
FrameCell(tbl, e, c) ==
  CASE c = "metadata_collected_flg" ->
         (IF tbl.rows[e].metadata_collected_flg THEN "True" ELSE "False")
    [] c = "reviews_collected_flg" ->
         (IF tbl.rows[e].reviews_collected_flg THEN "True" ELSE "False")
    [] c = "reviews_collected_cnt" ->
         (IF tbl.rows[e].reviews_collected_cnt = 0 THEN "0" ELSE "1")
    [] OTHER ->
         (IF tbl.rows[e].fields[c] = Null THEN "None"
          ELSE IF tbl.rows[e].fields[c] = Empty THEN "{}"
          ELSE "'value'")

\* the entity table as the data frame the collectors hold: ordered index
\* labels, column labels, one cell per pair
Frame(tbl) ==
  [index |-> [j \in 1..Len(tbl.index) |-> IdLabel(tbl.index[j])],
   columns |-> FrameColumns(tbl),
   at |-> [p \in {<<IdLabel(e), c>> :
                    e \in DOMAIN tbl.rows, c \in FrameColumns(tbl)} |->
             FrameCell(tbl, CHOOSE e \in DOMAIN tbl.rows : IdLabel(e) = p[1],
                       p[2])]]

\* the JSON text of a cell and the cell of a JSON text
JsonOf(v) ==
  CASE v = "True" -> "true" [] v = "False" -> "false" [] v = "None" -> "null"
    [] v = "'value'" -> "\"value\"" [] OTHER -> v
OfJson(t) ==
  CASE t = "true" -> "True" [] t = "false" -> "False" [] t = "null" -> "None"
    [] t = "\"value\"" -> "'value'" [] OTHER -> t

\* DataFrame.to_json(orient='index'): {index label: {column: value}}, the
\* outer keys in index order
frame_to_json(df) ==
  [keys |-> df.index,
   objects |-> [r \in {df.index[j] : j \in 1..Len(df.index)} |->
                  [c \in df.columns |-> JsonOf(df.at[<<r, c>>])]]]

\* the keys of the inner objects of a document
InnerKeys(doc) ==
  UNION {DOMAIN doc.objects[r] : r \in DOMAIN doc.objects}

\* pd.read_json(orient='index'): the outer keys are the index labels, the
\* inner keys the columns
read_json_index(doc) ==
  [index |-> doc.keys,
   columns |-> InnerKeys(doc),
   at |-> [p \in (DOMAIN doc.objects) \X InnerKeys(doc) |->
             OfJson(doc.objects[p[1]][p[2]])]]

\* pd.read_json() without orient (a frame defaults to orient='columns'):
\* the outer keys are the columns, the inner keys the index labels, in the
\* order of the first object
read_json_columns(doc, inner) ==
  [index |-> inner,
   columns |-> DOMAIN doc.objects,
   at |-> [p \in InnerKeys(doc) \X (DOMAIN doc.objects) |->
             OfJson(doc.objects[p[2]][p[1]])]]

\* the packages and functions that read the metadata file
Readers ==
  {"imdb_scraper.collect_metadata", "imdb_scraper.collect_reviews",
   "imdb_scrapper.collect_metadata"}

\* whether the read call of the reader passes orient='index'
ReadsWithOrient(reader) ==
  reader # "imdb_scrapper.collect_metadata"

\* field columns of a row: 0 for a row no fetch has filled
RowFields == 0..2
FieldsOf(f) ==
  CASE f = 0 -> [k \in KEYS |-> Null]
    [] f = 1 -> collect_single_movie_metadata([missing |-> {}])
    [] f = 2 -> collect_single_movie_metadata(
                  [missing |-> {"director", "poster_url", "actors"}])

\* the tables the collectors write: any order of any discovered ids, any
\* flags, field columns once some entity was fetched, the count column
\* once a reviews flush added it
StoredTables ==
  {[exists |-> TRUE,
    index |-> order,
    rows |-> [e \in {order[j] : j \in 1..Len(order)} |->
                [metadata_collected_flg |-> m[e],
                 reviews_collected_flg |-> r[e],
                 reviews_collected_cnt |->
                   IF hc /\ r[e] THEN 1 ELSE 0,
                 fields |->
                   IF \A j \in 1..Len(order) : f[order[j]] = 0
                     THEN NoFields ELSE FieldsOf(f[e])]],
    has_cnt |-> hc] :
     order \in UNION {Perms(S) : S \in SUBSET Ids},
     m \in [Ids -> BOOLEAN], r \in [Ids -> BOOLEAN],
     f \in [Ids -> RowFields], hc \in BOOLEAN}

InitStore ==
  /\ PoolIdle
  /\ LoopsIdle
  /\ pct_titles = 0
  /\ EngineIdle
  /\ ListingIdle
  /\ NetIdle
  /\ cpc = "write"
  /\ arg \in [table : StoredTables, reader : Readers]
  /\ result = <<>>

\* metadata.to_json(s3_uri, orient='index', ...)
StoreWrite ==
  /\ cpc = "write"
  /\ result' = frame_to_json(Frame(arg.table))
  /\ cpc' = "written"
  /\ UNCHANGED arg
  /\ UNCHANGED <<loops, engine, listing, net, pool>>

\* pd.read_json(s3_uri, storage_options=..., orient='index')
StoreReadIndex ==
  /\ cpc = "written"
  /\ ReadsWithOrient(arg.reader)
  /\ result' = read_json_index(result)
  /\ cpc' = "read"
  /\ UNCHANGED arg
  /\ UNCHANGED <<loops, engine, listing, net, pool>>

\* pd.read_json(s3_uri, storage_options=storage_options)
StoreReadDefault ==
  /\ cpc = "written"
  /\ ~ReadsWithOrient(arg.reader)
  /\ result' = read_json_columns(
                  result,
                  SelectSeq(ColumnOrder, LAMBDA c : c \in InnerKeys(result)))
  /\ cpc' = "read"
  /\ UNCHANGED arg
  /\ UNCHANGED <<loops, engine, listing, net, pool>>

NextStore ==
  \/ StoreWrite
  \/ StoreReadIndex
  \/ StoreReadDefault

SpecStore == InitStore /\ [][NextStore]_vars

\* ----------------------------------------------------------- send_request

\* stop_after_attempt(5)
STOP_AFTER_ATTEMPT == 5

\* what one attempt of session.get / requests.get can end in: a response
\* with some status, or an exception of requests
Statuses == {"200", "404", "500", "503"}
Exceptions == {"ConnectionError", "Timeout", "TooManyRedirects"}
Outcomes == Statuses \cup Exceptions

\* variant that also retries the server errors
ShouldRetry_ServerErrors(outcome) ==
  outcome \in {"ConnectionError", "Timeout", "500", "503"}

\* retry_if_exception_type((ConnectionError, Timeout))
ShouldRetry(outcome) ==
  outcome \in {"ConnectionError", "Timeout"}

\* stop_after_attempt(5), asked after a failed attempt that is to be retried
ShouldStop(attempt_number) ==
  attempt_number >= STOP_AFTER_ATTEMPT

InitRequest ==
  /\ PoolIdle
  /\ LoopsIdle
  /\ pct_titles = 0
  /\ EngineIdle
  /\ ListingIdle
  /\ CallsIdle
  /\ rpc = "attempt"
  /\ attempts = <<>>
  /\ response = "none"

\* the attempt returns a response: the retry predicate is false for a
\* result and the response goes to the caller, whatever its status
RequestReturns ==
  /\ rpc = "attempt"
  /\ \E o \in Statuses :
       /\ ~ShouldRetry(o)
       /\ attempts' = Append(attempts, o)
       /\ response' = o
  /\ rpc' = "returned"
  /\ UNCHANGED <<loops, engine, listing, calls, pool>>

\* the attempt raises an exception the retry predicate does not name: it is
\* raised again to the caller
RequestRaises ==
  /\ rpc = "attempt"
  /\ \E o \in Exceptions :
       /\ ~ShouldRetry(o)
       /\ attempts' = Append(attempts, o)
       /\ response' = o
  /\ rpc' = "raised"
  /\ UNCHANGED <<loops, engine, listing, calls, pool>>

\* the attempt is to be retried and the stop condition is false: the call
\* sleeps wait_random(1, 5) seconds
RequestRetries ==
  /\ rpc = "attempt"
  /\ \E o \in Outcomes :
       /\ ShouldRetry(o)
       /\ ~ShouldStop(Len(attempts) + 1)
       /\ attempts' = Append(attempts, o)
  /\ rpc' = "wait"
  /\ UNCHANGED response
  /\ UNCHANGED <<loops, engine, listing, calls, pool>>

\* the sleep is over
RequestWakes ==
  /\ rpc = "wait"
  /\ rpc' = "attempt"
  /\ UNCHANGED <<attempts, response>>
  /\ UNCHANGED <<loops, engine, listing, calls, pool>>

\* the attempt is to be retried and the stop condition is true: RetryError
RequestGivesUp ==
  /\ rpc = "attempt"
  /\ \E o \in Outcomes :
       /\ ShouldRetry(o)
       /\ ShouldStop(Len(attempts) + 1)
       /\ attempts' = Append(attempts, o)
  /\ response' = "RetryError"
  /\ rpc' = "raised"
  /\ UNCHANGED <<loops, engine, listing, calls, pool>>

NextRequest ==
  \/ RequestReturns
  \/ RequestRaises
  \/ RequestRetries
  \/ RequestWakes
  \/ RequestGivesUp

SpecRequest == InitRequest /\ [][NextRequest]_vars

\* ------------------------------- collect_metadata of package imdb_scrapper
\* The legacy package differs from imdb_scraper in the start of the run
\* (lines 66-96) and in the read of the file; its collection loop (lines
\* 98-131) is the loop of imdb_scraper without the sleep, so the loop
\* actions of section collect_metadata are the loop of both packages.

\* line 76, except FileNotFoundError: the except-branch is taken only when
\* the try-branch reached read_json and the file is absent
LegacyNeedBootstrap(ow, exists, rok) ==
  ~ow /\ ~exists

\* lines 67-68 and 72: what leaves the try statement uncaught; the bare
\* `raise' of line 68 has no active exception and raises RuntimeError, and
\* a read failure on an existing file is not a FileNotFoundError
LegacyStartRaises(ow, exists, rok) ==
  ow \/ (exists /\ ~rok)

\* line 72, pd.read_json(s3_uri) without orient on the file written with
\* orient='index': the ids become the columns and the inner keys (the flag
\* names first) the index
read_json_default(file) ==
  [exists |-> TRUE,
   index |-> IF file.index = <<>>
               THEN <<>>
               ELSE <<"metadata_collected_flg", "reviews_collected_flg">>,
   rows |-> IF file.index = <<>>
              THEN [k \in {} |-> 0]
              ELSE [k \in {"metadata_collected_flg", "reviews_collected_flg"}
                      |-> [e \in DOMAIN file.rows |-> file.rows[e][k]]],
   has_cnt |-> FALSE]

\* lines 52-55: the configuration is rejected before anything else is done
LegacyInvalid ==
  /\ config_pct_reviews' = 0
  /\ pc \in Stopped
  /\ runs < MaxRuns
  /\ \E pct \in PctTitles :
       /\ ~ValidPct(pct)
       /\ pct_titles' = pct
  /\ overwrite' \in BOOLEAN
  /\ runs' = runs + 1
  /\ pc' = "invalid"
  /\ prog' = "none"
  /\ lost' = {}
  /\ UNCHANGED <<persistent, read_ok, return_results, BATCH_SIZE,
                 partition_size, metadata, i, collected, reviews,
                 collected_cnt, partition_num, history, resumed>>
  /\ UNCHANGED aside

\* lines 66-76: the exception of the try-branch is not caught and ends the
\* run before collect_ids is called and before the file is touched
LegacyRaises ==
  /\ config_pct_reviews' = 0
  /\ pc \in Stopped
  /\ runs < MaxRuns
  /\ \E pct \in PctTitles :
       /\ ValidPct(pct)
       /\ pct_titles' = pct
  /\ \E ow \in BOOLEAN, rok \in BOOLEAN :
       /\ LegacyStartRaises(ow, store.exists, rok)
       /\ ow => rok
       /\ overwrite' = ow
       /\ read_ok' = rok
  /\ runs' = runs + 1
  /\ pc' = "raised"
  /\ prog' = "none"
  /\ lost' = {}
  /\ listed' = FALSE
  /\ UNCHANGED <<persistent, return_results, BATCH_SIZE, partition_size,
                 metadata, i, collected, reviews, collected_cnt,
                 partition_num, loaded, requests, succeeded, slept, failed,
                 http_errors, resumed>>
  /\ UNCHANGED aside

\* lines 76-96: the file is absent; ids are collected and the fresh table
\* is written
LegacyBootstrap ==
  /\ config_pct_reviews' = 0
  /\ StartRun("collect_metadata")
  /\ \E pct \in PctTitles :
       /\ ValidPct(pct)
       /\ pct_titles' = pct
  /\ LegacyNeedBootstrap(FALSE, store.exists, TRUE)
  /\ overwrite' = FALSE
  /\ read_ok' = TRUE
  /\ \E k \in 0..NumIds :
       /\ pct_titles' = 0 => k = 0
       /\ metadata' = InitialTable(Discovered(k))
       /\ store' = to_json(metadata')
  /\ loaded' = metadata'
  /\ listed' = TRUE
  /\ http_errors' = {}
  /\ pc' = "metadata"
  /\ UNCHANGED <<partitions, return_results, BATCH_SIZE, partition_size>>
  /\ UNCHANGED aside

\* line 81: collect_ids raises inside the except-branch
LegacyBootstrapRaises ==
  /\ config_pct_reviews' = 0
  /\ pc \in Stopped
  /\ runs < MaxRuns
  /\ \E pct \in PctTitles :
       /\ ValidPct(pct)
       /\ pct_titles' = pct
  /\ LegacyNeedBootstrap(FALSE, store.exists, TRUE)
  /\ overwrite' = FALSE
  /\ read_ok' = TRUE
  /\ runs' = runs + 1
  /\ pc' = "raised"
  /\ prog' = "none"
  /\ lost' = {}
  /\ listed' = TRUE
  /\ UNCHANGED <<persistent, return_results, BATCH_SIZE, partition_size,
                 metadata, i, collected, reviews, collected_cnt,
                 partition_num, loaded, requests, succeeded, slept, failed,
                 http_errors, resumed>>
  /\ UNCHANGED aside

\* lines 66-75: the file is read, with the default orient
LegacyLoad ==
  /\ config_pct_reviews' = 0
  /\ StartRun("collect_metadata")
  /\ \E pct \in PctTitles :
       /\ ValidPct(pct)
       /\ pct_titles' = pct
  /\ ~LegacyNeedBootstrap(FALSE, store.exists, TRUE)
  /\ ~LegacyStartRaises(FALSE, store.exists, TRUE)
  /\ overwrite' = FALSE
  /\ read_ok' = TRUE
  /\ metadata' = read_json_default(store)
  /\ loaded' = metadata'
  /\ listed' = FALSE
  /\ http_errors' = {}
  /\ pc' = "legacy_loop"
  /\ UNCHANGED <<persistent, return_results, BATCH_SIZE, partition_size>>
  /\ UNCHANGED aside

\* lines 100-101 on the table as read: the first index label is a flag
\* name and no column has that name, so metadata.at raises KeyError
LegacyLoopRaises ==
  /\ pc = "legacy_loop"
  /\ metadata.index # <<>>
  /\ ProcessGone
  /\ pc' = "raised"
  /\ lost' = {}
  /\ UNCHANGED aside

\* line 100 on an empty table: the loop has nothing to do
LegacyLoopReturn ==
  /\ pc = "legacy_loop"
  /\ metadata.index = <<>>
  /\ ProcessGone
  /\ pc' = "returned"
  /\ lost' = {}
  /\ UNCHANGED aside

NextLegacy ==
  \/ LegacyInvalid
  \/ LegacyRaises
  \/ LegacyBootstrap
  \/ LegacyBootstrapRaises
  \/ LegacyLoad
  \/ LegacyLoopRaises
  \/ LegacyLoopReturn
  \/ MetadataFail
  \/ MetadataCollect
  \/ MetadataFlush
  \/ MetadataReturn
  \/ Kill

SpecLegacy == Init /\ [][NextLegacy]_vars

\* ------------------------------ collect_metadata, two processes, one store

\* processes started against the same s3_uri with overwrite not set
Workers == {1, 2}

\* the memory of a process that has not started
WorkerIdle ==
  [wpc |-> "idle", metadata |-> NoTable, i |-> 0, collected |-> <<>>,
   flushed |-> {}]

\* the loops of section collect_metadata at rest, except for the store,
\* which holds the table of a bootstrap, and BATCH_SIZE
InitConcurrent ==
  /\ config_pct_reviews = 0
  /\ EngineIdle
  /\ ListingIdle
  /\ NetIdle
  /\ CallsIdle
  /\ store \in {to_json(InitialTable(Discovered(k))) : k \in 1..NumIds}
  /\ BATCH_SIZE \in 1..MaxBatch
  /\ partitions = [p \in {} |-> <<>>]
  /\ pc = "idle"
  /\ prog = "none"
  /\ runs = 0
  /\ overwrite = FALSE
  /\ read_ok = TRUE
  /\ return_results = FALSE
  /\ partition_size = 1
  /\ pct_titles = 0
  /\ metadata = NoTable
  /\ i = 0
  /\ collected = <<>>
  /\ reviews = <<>>
  /\ collected_cnt = 0
  /\ partition_num = 1
  /\ loaded = NoTable
  /\ requests = [e \in Ids |-> 0]
  /\ succeeded = {}
  /\ slept = TRUE
  /\ failed = {}
  /\ lost = {}
  /\ resumed = FALSE
  /\ listed = FALSE
  /\ http_errors = {}
  /\ workers = [w \in Workers |-> WorkerIdle]

\* what a step of a process leaves alone
WorkerFrame ==
  UNCHANGED <<partitions, pc, prog, runs, overwrite, read_ok, return_results,
              BATCH_SIZE, partition_size, metadata, i, collected, reviews,
              collected_cnt, partition_num, loaded, requests, succeeded, slept,
              failed, lost, resumed, pct_titles, config_pct_reviews, listed,
              http_errors, engine,
              listing, net, calls>>

\* lines 94-107: the process reads the table; no lock is taken and no
\* version of the file is remembered
WorkerLoad(w) ==
  /\ workers[w].wpc = "idle"
  /\ store.exists
  /\ workers' = [workers EXCEPT ![w].wpc = "metadata",
                                ![w].metadata = read_json(store)]
  /\ UNCHANGED store
  /\ WorkerFrame

\* lines 133-134
WorkerSkip(w) ==
  /\ workers[w].wpc = "metadata"
  /\ workers[w].i < Len(workers[w].metadata.index)
  /\ AlreadyCollected(workers[w].metadata,
                      workers[w].metadata.index[workers[w].i + 1])
  /\ workers' = [workers EXCEPT ![w].i = @ + 1]
  /\ UNCHANGED store
  /\ WorkerFrame

\* lines 137-142: the fetch raises
WorkerFail(w) ==
  /\ workers[w].wpc = "metadata"
  /\ workers[w].i < Len(workers[w].metadata.index)
  /\ ~AlreadyCollected(workers[w].metadata,
                       workers[w].metadata.index[workers[w].i + 1])
  /\ workers' = [workers EXCEPT ![w].i = @ + 1]
  /\ UNCHANGED store
  /\ WorkerFrame

\* lines 137-150: the fetch returns, the fields are merged into the table
\* of the process, the id is appended and the flush test is evaluated
WorkerCollect(w) ==
  /\ workers[w].wpc = "metadata"
  /\ workers[w].i < Len(workers[w].metadata.index)
  /\ LET mem == workers[w]
         id_ == mem.metadata.index[mem.i + 1]
         due == FlushDue(Append(mem.collected, id_), BATCH_SIZE, mem.i,
                         Len(mem.metadata.index))
     IN
       /\ ~AlreadyCollected(mem.metadata, id_)
       /\ \E page \in Pages :
            workers' =
              [workers EXCEPT
                 ![w].metadata =
                    MergeFields(mem.metadata, id_,
                                collect_single_movie_metadata(
                                  [missing |-> page.missing])),
                 ![w].collected = Append(mem.collected, id_),
                 ![w].wpc = IF due THEN "metadata_flush" ELSE "metadata",
                 ![w].i = IF due THEN mem.i ELSE mem.i + 1]
  /\ UNCHANGED store
  /\ WorkerFrame

\* lines 151-161: the collected ids are flagged in the table of the
\* process and that table replaces the file, whatever the file holds
WorkerFlush(w) ==
  /\ workers[w].wpc = "metadata_flush"
  /\ LET mem == workers[w]
         tbl == MarkCollected(mem.metadata, mem.collected)
     IN
       /\ store' = to_json(tbl)
       /\ workers' =
            [workers EXCEPT
               ![w].metadata = tbl,
               ![w].flushed =
                  @ \cup {mem.collected[j] : j \in 1..Len(mem.collected)},
               ![w].collected = <<>>,
               ![w].i = @ + 1,
               ![w].wpc = "metadata"]
  /\ WorkerFrame

\* the for loop of the process is exhausted
WorkerReturn(w) ==
  /\ workers[w].wpc = "metadata"
  /\ workers[w].i = Len(workers[w].metadata.index)
  /\ workers' = [workers EXCEPT ![w].wpc = "returned",
                                ![w].metadata = NoTable,
                                ![w].i = 0]
  /\ UNCHANGED store
  /\ WorkerFrame

NextConcurrent ==
  \/ \E w \in Workers : WorkerLoad(w)
  \/ \E w \in Workers : WorkerSkip(w)
  \/ \E w \in Workers : WorkerFail(w)
  \/ \E w \in Workers : WorkerCollect(w)
  \/ \E w \in Workers : WorkerFlush(w)
  \/ \E w \in Workers : WorkerReturn(w)

SpecConcurrent == InitConcurrent /\ [][NextConcurrent]_vars

\* ================================================================ claims

Running ==
  {"metadata", "metadata_flush", "reviews", "reviews_flush",
   "reviews_results"}

\* the for loop of the run is exhausted: the function returns normally
MetadataReturns ==
  pc = "metadata" /\ i = Len(metadata.index)

ReviewsReturns ==
  pc = "reviews" /\ i = Len(metadata.index)

InMemory == pc \in Running

Requested == {e \in Ids : requests[e] > 0}

Pending(tbl) == {e \in DOMAIN tbl.rows : ~tbl.rows[e].metadata_collected_flg}

\* the records the engine returned for e are in some partition file
ReviewsPersisted(e) ==
  \/ store.rows[e].reviews_collected_cnt = 0
  \/ \E p \in DOMAIN partitions :
       \E j \in 1..Len(partitions[p]) :
         /\ partitions[p][j].movie_id = e
         /\ partitions[p][j].n = store.rows[e].reviews_collected_cnt

\* C1: when collect_metadata returns normally, every entity whose
\* extraction succeeded in the run is persisted with
\* metadata_collected_flg = true (the table is flushed at the final entity
\* whatever its outcome).  Violated by the code.
C1_ReturnPersistsSucceeded ==
  MetadataReturns =>
     \A e \in succeeded : store.rows[e].metadata_collected_flg

\* C2: at every point of a persisting collect_reviews run, every entity the
\* persisted table shows as reviews_collected_flg = true has its review
\* records in a partition file.  Violated by the code.
C2_DoneImpliesReviewsPersisted ==
  (prog = "collect_reviews" /\ ~return_results /\ store.exists) =>
     \A e \in DOMAIN store.rows :
        store.rows[e].reviews_collected_flg => ReviewsPersisted(e)

\* C3: when a persisting collect_reviews run returns normally, the buffer
\* is empty and every entity processed in the run is persisted as
\* reviews_collected_flg = true with its records in a partition file.
\* Violated by the code.
C3_ReturnFlushed ==
  (ReviewsReturns /\ ~return_results) =>
     /\ reviews = <<>>
     /\ \A e \in succeeded :
          store.rows[e].reviews_collected_flg /\ ReviewsPersisted(e)

\* C4: an entity whose metadata_collected_flg is true in the table loaded
\* at the start of a collect_metadata run is never fetched in that run and
\* its record is modified neither in memory nor in the store.
C4_CollectedNotRefetched ==
  prog = "collect_metadata" =>
     \A e \in DOMAIN loaded.rows :
        loaded.rows[e].metadata_collected_flg =>
           /\ requests[e] = 0
           /\ store.rows[e] = loaded.rows[e]
           /\ InMemory => metadata.rows[e] = loaded.rows[e]

C4_Witness ==
  /\ MetadataReturns
  /\ \E e \in DOMAIN loaded.rows : loaded.rows[e].metadata_collected_flg
  /\ \E e \in DOMAIN loaded.rows : requests[e] > 0

\* C5: an entity whose fetch raised in a collect_metadata run gets no
\* field merged, keeps metadata_collected_flg = false in memory and in
\* every table persisted in the run, is attempted exactly once, and the
\* loop goes on past it.
C5_FailedStaysPending ==
  prog = "collect_metadata" =>
     /\ failed # {} => pc \in {"metadata", "metadata_flush"}
     /\ \A e \in failed :
          /\ requests[e] = 1
          /\ ~store.rows[e].metadata_collected_flg
          /\ \A k \in DOMAIN store.rows[e].fields :
               store.rows[e].fields[k] = Null
          /\ InMemory =>
               /\ ~metadata.rows[e].metadata_collected_flg
               /\ \A k \in DOMAIN metadata.rows[e].fields :
                    metadata.rows[e].fields[k] = Null
               /\ \E j \in 1..i : metadata.index[j] = e

C5_Witness ==
  /\ MetadataReturns
  /\ failed # {}
  /\ \E e \in succeeded : store.rows[e].metadata_collected_flg

\* C6: at any point where a collect_metadata run may be killed, the
\* entities that succeeded in the run but are not persisted as collected
\* are at most BATCH_SIZE and are all persisted with the flag false; a
\* following resuming run that completes fetches exactly the entities the
\* loaded table shows as not collected, the lost ones included.
C6_KillLosesAtMostOneBatch ==
  prog = "collect_metadata" =>
     /\ succeeded \subseteq DOMAIN store.rows
     /\ Cardinality({e \in succeeded :
                       ~store.rows[e].metadata_collected_flg}) <= BATCH_SIZE
     /\ (resumed /\ ~overwrite /\ read_ok /\ MetadataReturns) =>
          /\ Requested = Pending(loaded)
          /\ lost \subseteq Requested

C6_Witness ==
  /\ resumed /\ ~overwrite /\ read_ok
  /\ MetadataReturns
  /\ lost # {}
  /\ Requested # lost

\* C7: in runs with overwrite = false on a readable store the persisted
\* flags are monotone: no step turns a persisted metadata_collected_flg or
\* reviews_collected_flg from true to false, and no persisted entity
\* disappears.
C7_FlagsMonotone ==
  [][(store.exists /\ ~overwrite' /\ read_ok') =>
       /\ store'.exists
       /\ \A e \in DOMAIN store.rows :
            /\ e \in DOMAIN store'.rows
            /\ store.rows[e].metadata_collected_flg =>
                 store'.rows[e].metadata_collected_flg
            /\ store.rows[e].reviews_collected_flg =>
                 store'.rows[e].reviews_collected_flg]_vars

C7_Witness ==
  /\ runs = 2
  /\ ~overwrite /\ read_ok
  /\ MetadataReturns \/ ReviewsReturns
  /\ \E e \in DOMAIN store.rows :
       /\ store.rows[e].metadata_collected_flg
       /\ store.rows[e].reviews_collected_flg

\* C8: every entity a persisted table shows with
\* metadata_collected_flg = true carries all ten keys of
\* collect_single_movie_metadata, whichever extractions failed.
C8_CollectedHasAllKeys ==
  store.exists =>
     \A e \in DOMAIN store.rows :
        store.rows[e].metadata_collected_flg =>
           DOMAIN store.rows[e].fields = KEYS

C8_Witness ==
  \E e \in DOMAIN store.rows :
     /\ store.rows[e].metadata_collected_flg
     /\ store.rows[e].fields["director"] = Null
     /\ store.rows[e].fields["genres"] = Value

\* C9: whenever collect_single_movie_reviews returns, it returns at least
\* as many records as its first parsed batch contains, for every total
\* count and every pct_reviews, 0 included.
C9_AtLeastFirstBatch ==
  epc = "returned" =>
     /\ first_batch = feed[1]
     /\ title_reviews >= feed[1]

C9_Witness ==
  /\ epc = "returned"
  /\ pct_reviews = 0
  /\ first_batch = 25
  /\ title_reviews = 25

\* C10: the engine issues a continuation request only while the
\* accumulated count is at most target = floor(total * pct / 100); it
\* returns either right after the first batch that lifts the count above
\* target or on a page without continuation key; the returned count is at
\* most target plus the last batch; total = 200, pct = 10 and a first batch
\* of 25 give one page request and 25 records.
C10_StopsAtFirstOvershoot ==
  /\ ~late_request
  /\ epc = "more" => title_reviews <= (movie_reviews_num * pct_reviews) \div 100
  /\ epc = "returned" =>
       /\ title_reviews <= (movie_reviews_num * pct_reviews) \div 100
                             + last_batch
       /\ title_reviews - last_batch <=
            (movie_reviews_num * pct_reviews) \div 100
       /\ title_reviews <= (movie_reviews_num * pct_reviews) \div 100 =>
            PageKey(res) = 0
       /\ (movie_reviews_num = 200 /\ pct_reviews = 10 /\ feed[1] = 25) =>
            (page_requests = 1 /\ title_reviews = 25)

C10_Witness ==
  /\ epc = "returned"
  /\ movie_reviews_num = 200
  /\ pct_reviews = 10
  /\ feed[1] = 25
  /\ Len(feed) > 1
  /\ page_requests = 1
  /\ title_reviews = 25

\* ---------------------------------------------------- claims on collect_ids

\* floor(T * p / 100) for the genre being listed
Cutoff == (total_titles_count * pct_titles) \div 100

CeilDiv(a, b) == (a + b - 1) \div b

\* the range of the current genre is exhausted
GenreDone ==
  genre >= 1 /\ ipc \in {"genre_done", "genre", "returned"}

\* the ids of the pages fetched for the current genre
GenreIds ==
  UNION {PageItems(genre, offsets[j], total_titles_count) :
           j \in 1..Len(offsets)}

\* the listing positions of the current genre that a fetched page covers
Covered ==
  {pos \in 1..total_titles_count :
     \E j \in 1..Len(offsets) :
        offsets[j] <= pos /\ pos <= offsets[j] + STEP - 1}

C12_PctBoundaries ==
  /\ pct_titles = 0 => (offsets = <<>> /\ ids = {})
  /\ (pct_titles = 100 /\ GenreDone) =>
       /\ Covered = 1..total_titles_count
       /\ Cardinality(GenreIds) = total_titles_count

C12_Witness ==
  /\ ipc = "returned"
  /\ pct_titles = 100
  /\ genre = 2
  /\ total_titles_count = 120
  /\ Len(offsets) = 3
  /\ Cardinality(ids) > 120

\* ------------------------------------------------ claims on collect_reviews

RECURSIVE BufferedRecords(_)
\* len(reviews): the number of review records in the buffer
BufferedRecords(revs) ==
  IF revs = <<>> THEN 0
  ELSE Head(revs).n + BufferedRecords(Tail(revs))

TwoIntegers(df) ==
  \A j \in 1..Len(df.rows) : Len(df.rows[j].helpfulness.ints) = 2

\* what the split yields for frames of the given kind: one output row per
\* input row holding the two embedded integers, the other columns as they
\* were, and no helpfulness column; and the error without the column
SplitLaw(Kind(_)) ==
  cpc # "call" =>
     /\ ~arg.has_helpfulness => cpc = "raised"
     /\ (arg.has_helpfulness /\ Kind(arg)) =>
          /\ cpc = "returned"
          /\ Len(result.rows) = Len(arg.rows)
          /\ \A j \in 1..Len(arg.rows) :
               /\ result.rows[j].upvotes = arg.rows[j].helpfulness.ints[1]
               /\ result.rows[j].total_votes =
                     arg.rows[j].helpfulness.ints[2]
               /\ result.rows[j].rest = arg.rows[j].rest
               /\ "helpfulness" \notin DOMAIN result.rows[j]

\* every embedded integer of the frame is at most 2^24
SmallIntegers(df) ==
  \A j \in 1..Len(df.rows) :
    \A k \in 1..Len(df.rows[j].helpfulness.ints) :
      df.rows[j].helpfulness.ints[k] <= Float32Exact

C15_RoundTrip ==
  cpc = "read" =>
     /\ result.index = Frame(arg.table).index
     /\ result.columns = Frame(arg.table).columns
     /\ result.at = Frame(arg.table).at

\* ----------------------------------------------------- claims on send_request

Transient == {"ConnectionError", "Timeout"}

\* C16: send_request makes at most 5 attempts per call; a further attempt is
\* made only after the previous attempt raised ConnectionError or Timeout;
\* any other exception propagates from the attempt that raised it; a
\* response with an HTTP error status is returned after the attempt that
\* produced it, neither retried nor raised; after the fifth consecutive
\* transient failure the call raises to its caller.
C16_RetryPolicy ==
  /\ Len(attempts) <= 5
  /\ \A j \in 1..(Len(attempts) - 1) : attempts[j] \in Transient
  /\ rpc \in {"attempt", "wait"} =>
       /\ Len(attempts) < 5
       /\ \A j \in 1..Len(attempts) : attempts[j] \in Transient
  /\ rpc = "returned" =>
       /\ attempts[Len(attempts)] \in Statuses
       /\ response = attempts[Len(attempts)]
  /\ rpc = "raised" =>
       \/ /\ attempts[Len(attempts)] \in Exceptions \ Transient
          /\ response = attempts[Len(attempts)]
       \/ /\ Len(attempts) = 5
          /\ attempts[5] \in Transient
          /\ response = "RetryError"
  /\ (attempts # <<>> /\ attempts[Len(attempts)] \notin Transient) =>
       rpc \in {"returned", "raised"}

C16_Witness ==
  /\ rpc = "returned"
  /\ Len(attempts) = 5
  /\ attempts[4] = "Timeout"
  /\ response = "503"

\* ------------------------------------------------- claims on collect_reviews

\* C17: with return_results = true, collect_reviews never writes the
\* Progress Store nor a partition file, and it returns the buffered records
\* at the first moment a flush condition holds: the loop never goes on with
\* the threshold reached, and never runs off the end of the table with
\* records in the buffer.  Violated by the code.
C17_ReturnResults ==
  /\ [][(prog = "collect_reviews" /\ return_results) =>
          UNCHANGED persistent]_vars
  /\ []((pc = "reviews" /\ return_results) =>
          /\ collected_cnt < partition_size
          /\ i = Len(metadata.index) => reviews = <<>>)

\* ------------------------------------------------ claims on collect_metadata

\* C18: a call of collect_metadata with pct_titles outside [0, 100] is
\* rejected with an error, and rejecting it issues no request, lists no
\* identifiers and neither reads nor writes the Progress Store; no run of
\* collect_metadata goes on with such a value.
C18_PctValidation ==
  [][runs' # runs =>
       /\ (pct_titles' < 0 \/ pct_titles' > 100) => pc' = "invalid"
       /\ pc' = "invalid" =>
            /\ pct_titles' < 0 \/ pct_titles' > 100
            /\ prog' = "none"
            /\ UNCHANGED <<store, partitions, metadata, loaded, requests,
                           listed>>
            /\ \A e \in Ids : requests[e] = 0
            /\ ~listed]_vars

C18_Witness ==
  /\ pc = "invalid"
  /\ pct_titles = 101
  /\ store.exists

\* C19: in collect_reviews a failure while collecting one entity's reviews
\* is caught and logged, the entity keeps reviews_collected_flg = false and
\* the loop goes on with the next entity: no step taken from the loop ends
\* the run with an exception.  Violated by the code.
C19_EntityFailureTolerated ==
  [][(pc = "reviews" /\ i < Len(metadata.index)) => pc' # "raised"]_vars

\* the stored table is an initial table: one record per id of the index,
\* both flags false and no field collected
IsInitialTable(file) ==
  /\ file.exists
  /\ DOMAIN file.rows = {file.index[j] : j \in 1..Len(file.index)}
  /\ \A e \in DOMAIN file.rows :
       /\ ~file.rows[e].metadata_collected_flg
       /\ ~file.rows[e].reviews_collected_flg
       /\ file.rows[e].fields = NoFields

\* C20: a collect_metadata run that starts with overwrite = false and finds
\* the Progress Store missing lists the identifiers and writes the initial
\* table before any per-entity fetch, and no later write of the run is an
\* initial table or follows another listing; a run that starts with
\* overwrite = false and finds the store readable lists nothing and leaves
\* the store as it is.
C20_BootstrapOnce ==
  [][/\ (runs' # runs /\ prog' = "collect_metadata" /\ ~overwrite') =>
          /\ ~store.exists =>
               /\ listed'
               /\ IsInitialTable(store')
               /\ store'.index = metadata'.index
               /\ \A e \in Ids : requests'[e] = 0
          /\ (store.exists /\ read_ok') =>
               /\ ~listed'
               /\ store' = store
     /\ (runs' = runs /\ prog = "collect_metadata") =>
          /\ prog' = "collect_metadata" => listed' = listed
          /\ store' # store =>
               /\ \E e \in Ids : requests[e] > 0
               /\ \E e \in DOMAIN store'.rows :
                    store'.rows[e].metadata_collected_flg]_vars

C20_Witness ==
  /\ prog = "collect_metadata"
  /\ runs = 1
  /\ listed
  /\ ~overwrite
  /\ read_ok
  /\ Len(store.index) = 2
  /\ \E e \in DOMAIN store.rows : store.rows[e].metadata_collected_flg

\* C21: a collect_metadata run with overwrite = false whose read of an
\* existing Progress Store fails is fatal: the run ends with the error, the
\* persisted table is unchanged and no identifier discovery is started.
\* Violated by the code.
C21_UnreadableStoreIsFatal ==
  [][(runs' # runs /\ store.exists /\ ~overwrite' /\ ~read_ok') =>
       /\ pc' = "raised"
       /\ store' = store
       /\ ~listed']_vars

\* C22: collect_metadata persists an entity as metadata_collected_flg = true
\* only when its page came with a success status: an entity whose page was
\* answered with an HTTP error status in the run stays pending in the
\* store.  Violated by the code.
C22_ErrorStatusStaysPending ==
  prog = "collect_metadata" =>
     \A e \in http_errors :
        e \in DOMAIN store.rows => ~store.rows[e].metadata_collected_flg

\* ------------------------------- claims on collect_single_movie_reviews (2)

\* C23: a fetch that raises inside collect_single_movie_reviews is logged
\* and not propagated: the engine never ends with an exception, it goes on
\* with the last response it obtained and returns a list of records.
\* Violated by the code.
C23_FetchFailureNotPropagated ==
  /\ epc # "raised"
  /\ epc = "loop" => res # 0

\* C24 as stated: when the total review count cannot be parsed,
\* get_reviews_total_count returns 0 and collect_single_movie_reviews
\* returns an empty list, whatever the first page contains.
C24_UnparsedCountCollectsNothing ==
  (epc \in {"loop", "more", "returned"} /\ ~count_parsed) =>
     /\ movie_reviews_num = 0
     /\ epc = "returned" => title_reviews = 0

\* C24 amended: when the total review count cannot be parsed,
\* get_reviews_total_count returns 0, the target is 0 for every pct_reviews,
\* and collect_single_movie_reviews stops at the first batch that holds a
\* review: it returns that whole batch and nothing else (the whole first
\* page when it holds a review, after a single page request), and an empty
\* list only when it reached the end of a feed without reviews.
C24_UnparsedCountStopsAtFirstBatch ==
  (epc \in {"loop", "more", "returned"} /\ ~count_parsed) =>
     /\ movie_reviews_num = 0
     /\ reviews_num_max = 0
     /\ epc \in {"loop", "more"} => title_reviews = 0
     /\ epc = "returned" =>
          /\ title_reviews = feed[res]
          /\ \A p \in 1..(res - 1) : feed[p] = 0
          /\ title_reviews = 0 => res = Len(feed)
          /\ feed[1] > 0 => (title_reviews = feed[1] /\ page_requests = 1)

C24_Witness ==
  /\ epc = "returned"
  /\ ~count_parsed
  /\ pct_reviews = 100
  /\ Len(feed) = 2
  /\ feed[1] = 25
  /\ title_reviews = 25

\* the continuation token the site puts on page p of the feed (0: none)
TokenOf(p) == IF p < Len(feed) THEN p + 1 ELSE 0

RECURSIVE FeedTotal(_)
\* the number of reviews on the first n pages of the feed
FeedTotal(n) == IF n = 0 THEN 0 ELSE FeedTotal(n - 1) + feed[n]

\* C25: whenever the accumulated count is not above the target after a
\* batch, the engine finishes if the just-parsed response carries no
\* continuation token, and otherwise the next request carries exactly the
\* token of that response; with pct_reviews = 100, an accurate total count
\* and no failed fetch the engine walks the feed to the page without token
\* and returns every review of every page.
C25_FollowsLatestToken ==
  /\ [][(epc = "loop" /\ epc' # "raised" /\
           title_reviews' <= reviews_num_max) =>
          /\ TokenOf(res) = 0 => epc' = "returned"
          /\ TokenOf(res) # 0 =>
               (epc' = "more" /\ pagination_key' = TokenOf(res))]_vars
  /\ [][(epc = "more" /\ epc' # "more") =>
          /\ wire'[Len(wire')].kind = "link"
          /\ wire'[Len(wire')].key = TokenOf(res)
          /\ TokenOf(res) # 0]_vars
  /\ []((/\ epc = "returned"
         /\ pct_reviews = 100
         /\ count_parsed
         /\ movie_reviews_num = FeedTotal(Len(feed))
         /\ page_requests = res) =>
          /\ res = Len(feed)
          /\ title_reviews = FeedTotal(Len(feed)))

C25_Witness ==
  /\ epc = "returned"
  /\ pct_reviews = 100
  /\ count_parsed
  /\ feed = <<1, 1, 2>>
  /\ movie_reviews_num = 4
  /\ page_requests = 3
  /\ title_reviews = 4
  /\ wire[Len(wire) - 1].key = 3

\* --------------------------------------------- claims on collect_reviews (2)

\* C26: collect_reviews runs the engine only for entities that are
\* metadata_collected_flg = true and reviews_collected_flg = false in the
\* loaded table; an entity without collected metadata is never processed
\* and never marked reviews_collected.  Violated by the code.
C26_OnlyMetadataCollected ==
  prog = "collect_reviews" =>
     /\ \A e \in succeeded :
          /\ loaded.rows[e].metadata_collected_flg
          /\ ~loaded.rows[e].reviews_collected_flg
     /\ \A e \in DOMAIN metadata.rows :
          (metadata.rows[e].reviews_collected_flg /\
             ~loaded.rows[e].reviews_collected_flg) =>
            loaded.rows[e].metadata_collected_flg

\* ------------------------------------------------- claims on collect_ids (2)

\* C27: in collect_ids a failure to fetch or parse one listing page is
\* contained: the page contributes no identifier and the iteration goes on
\* with the next page and the next genre, so that no step taken at a page
\* ends collect_ids with an exception.  Violated by the code.
C27_PageFailureContained ==
  [][ipc = "pages" =>
       /\ ipc' # "raised"
       /\ ids \subseteq ids']_vars

\* ------------------------------- claims on collect_single_movie_reviews (3)

\* C28: every request collect_single_movie_reviews issues for an entity
\* (start page, review count, continuation links) is sent through the
\* session opened for the entity, which carries the browser User-Agent.
\* Violated by the code.
C28_RequestsUseSession ==
  \A j \in 1..Len(wire) : wire[j].kind # "sleep" => wire[j].session

\* C29: a sleep of SLEEP_TIME separates every two consecutive requests of
\* collect_single_movie_reviews, and a sleep precedes the first request.
\* Violated by the code.
C29_SleepBetweenRequests ==
  /\ wire # <<>> => wire[1] = Sleep
  /\ \A j \in 1..(Len(wire) - 1) :
       wire[j].kind = "sleep" \/ wire[j + 1].kind = "sleep"

\* --------------------------------------------- claims on collect_metadata (2)

\* the rows of a table that are not flagged collected hold no scraped field
PendingHoldNoFields(tbl) ==
  \A e \in DOMAIN tbl.rows :
     ~tbl.rows[e].metadata_collected_flg =>
        \A k \in DOMAIN tbl.rows[e].fields : tbl.rows[e].fields[k] = Null

\* C30 as stated: in every state of a collect_metadata run, in the
\* in-memory table between checkpoints as well as in the persisted table,
\* an entity whose metadata_collected_flg is false holds no scraped field.
C30_FieldsAndFlagTogether ==
  prog = "collect_metadata" =>
     /\ PendingHoldNoFields(metadata)
     /\ store.exists => PendingHoldNoFields(store)

\* C30 amended: in every persisted table an entity whose
\* metadata_collected_flg is false holds no scraped field; in memory the
\* fields are merged at the fetch and the flag follows at the checkpoint, so
\* between checkpoints the unflagged entities that hold fields are exactly
\* the ids waiting in `collected'.
C30_PersistedFieldsAndFlagTogether ==
  prog = "collect_metadata" =>
     /\ store.exists => PendingHoldNoFields(store)
     /\ \A e \in DOMAIN metadata.rows :
          (~metadata.rows[e].metadata_collected_flg /\
             \E k \in DOMAIN metadata.rows[e].fields :
                metadata.rows[e].fields[k] # Null) =>
            \E j \in 1..Len(collected) : collected[j] = e

C30_Witness ==
  /\ prog = "collect_metadata"
  /\ pc = "metadata"
  /\ \E a, b \in DOMAIN store.rows :
       /\ store.rows[a].metadata_collected_flg
       /\ store.rows[a].fields["original_title"] = Value
       /\ ~store.rows[b].metadata_collected_flg
       /\ ~metadata.rows[b].metadata_collected_flg
       /\ metadata.rows[b].fields["original_title"] = Value

\* ---------------------------------------------- claims on collect_reviews (2)

\* the step of collect_reviews that writes a partition file (lines 143-155)
PartitionWritten ==
  pc = "reviews_flush" /\ pc' = "reviews"

\* the review chunks the running collect_reviews holds or has written: the
\* files numbered below partition_num, then the buffer
RunChunks ==
  [p \in 1..partition_num |->
     IF p < partition_num /\ p \in DOMAIN partitions
       THEN partitions[p] ELSE reviews]

\* C31: within one persisting collect_reviews run the k-th flush writes
\* partition number k (the number starts at 1, grows by one at every
\* partition write and changes at no other step), the buffer and the
\* per-partition counter are empty right after every flush, and every
\* record returned by the engine is in at most one partition file (chunks
\* of one entity never sit in two files of the run, nor twice in one).
C31_PartitionNumbering ==
  /\ [][PartitionWritten =>
          /\ partition_num \in DOMAIN partitions'
          /\ partitions'[partition_num] = reviews
          /\ \A p \in DOMAIN partitions \ {partition_num} :
               partitions'[p] = partitions[p]
          /\ partition_num' = partition_num + 1
          /\ reviews' = <<>>
          /\ collected_cnt' = 0]_vars
  /\ [][(prog = "collect_reviews" /\ prog' = "collect_reviews"
           /\ ~PartitionWritten) =>
          /\ partition_num' = partition_num
          /\ partitions' = partitions]_vars
  /\ [][(prog # "collect_reviews" /\ prog' = "collect_reviews") =>
          partition_num' = 1]_vars
  /\ [](prog = "collect_reviews" =>
          /\ \A p \in 1..(partition_num - 1) : p \in DOMAIN partitions
          /\ \A p, q \in 1..partition_num :
               \A a \in 1..Len(RunChunks[p]), b \in 1..Len(RunChunks[q]) :
                  RunChunks[p][a].movie_id = RunChunks[q][b].movie_id =>
                     p = q /\ a = b)

C31_Witness ==
  /\ prog = "collect_reviews"
  /\ ~return_results
  /\ partition_num = 3
  /\ reviews = <<>>
  /\ collected_cnt = 0
  /\ partitions[1] # <<>>
  /\ partitions[2] # <<>>
  /\ partitions[1][1].movie_id # partitions[2][1].movie_id

\* C32: a collect_reviews run that resumes (overwrite not set) never
\* overwrites a partition file written by an earlier run: the file it
\* writes does not exist yet.  The files of the running run are numbered
\* below partition_num (C31), so an existing file of number partition_num
\* is a file of an earlier run.
C32_PartitionNamesUnique ==
  [][(PartitionWritten /\ ~overwrite) =>
        partition_num \notin DOMAIN partitions]_vars

\* ------------------------------------- claims on concurrent collect_metadata

\* progress of process w on entity e is lost: a checkpoint of w persisted
\* e as collected and the file now holds e as not collected
LostProgress(w, e) ==
  /\ e \in workers[w].flushed
  /\ ~store.rows[e].metadata_collected_flg

\* C33: with two collect_metadata runs interleaved on one store, an entity
\* persisted as collected by a checkpoint of one run can be persisted as
\* not collected by a later checkpoint of the other run, which loaded the
\* table before that checkpoint (C33_Witness is such a state); the step
\* that loses the flag is always a checkpoint of a process whose own table
\* holds the entity as not collected, and as long as a single process has
\* started no progress is lost.
C33_LostUpdate ==
  /\ [][\A e \in DOMAIN store.rows :
          (store.rows[e].metadata_collected_flg
             /\ ~store'.rows[e].metadata_collected_flg) =>
            \E v \in Workers :
               /\ workers[v].wpc = "metadata_flush"
               /\ workers'[v].wpc = "metadata"
               /\ ~workers'[v].metadata.rows[e].metadata_collected_flg
               /\ e \notin workers'[v].flushed
               /\ \E w \in Workers \ {v} : e \in workers[w].flushed]_vars
  /\ [](\A w \in Workers :
          (\A v \in Workers \ {w} : workers[v].wpc = "idle") =>
             \A e \in DOMAIN store.rows : ~LostProgress(w, e))

C33_Witness ==
  /\ workers # <<>>
  /\ \E w \in Workers, e \in DOMAIN store.rows :
       /\ LostProgress(w, e)
       /\ \E v \in Workers \ {w} : workers[v].flushed # {}

\* ---------------------------------------------- claims on collect_reviews (3)

\* C34: a review record with a field that was extracted as null never makes
\* a flush of collect_reviews raise: a flush whose buffer holds such a
\* record does not end the run with an exception.
C34_NullFieldTolerated ==
  [][(pc = "reviews_flush"
        /\ \E j \in 1..Len(reviews) : reviews[j].null_help) =>
       pc' # "raised"]_vars

\* --------------------------------------------------- claims on collect_ids (2)

\* C35: the set collect_ids returns holds each identifier once however many
\* pages or genres list it: a page adds exactly its identifiers that were
\* not met before and changes nothing recorded for the others, and the
\* bootstrap records built from the returned set are one per identifier,
\* every one with both flags false.
C35_IdsDeduplicated ==
  /\ [][(ipc = "pages" /\ ipc' = "pages" /\ offsets' # offsets) =>
          /\ ids \subseteq ids'
          /\ ids' \ ids =
               PageItems(genre, partition, total_titles_count) \ ids
          /\ \A id_ \in ids :
               BootstrapRecords(ids')[id_] = BootstrapRecords(ids)[id_]]_vars
  /\ [](ipc = "returned" =>
          /\ DOMAIN BootstrapRecords(ids) = ids
          /\ \A id_ \in ids :
               /\ ~BootstrapRecords(ids)[id_].metadata_collected_flg
               /\ ~BootstrapRecords(ids)[id_].reviews_collected_flg)

\* the identifier shared by both genres was on a fetched page of each
C35_Witness ==
  /\ ipc = "returned"
  /\ genres = 2
  /\ common = 1
  /\ <<0, 1>> \in ids
  /\ \E pos \in 2..STEP : <<1, pos>> \in ids
  /\ \E pos \in 2..STEP : <<2, pos>> \in ids

\* ------------------------------------------ claims on the overwrite directive

\* a table in which every entity has both flags false and no field
AllPending(tbl) ==
  \A e \in DOMAIN tbl.rows :
     /\ ~tbl.rows[e].metadata_collected_flg
     /\ ~tbl.rows[e].reviews_collected_flg
     /\ tbl.rows[e].fields = NoFields

\* C36: with overwrite = true, collect_metadata does not use the existing
\* store: the run calls collect_ids and, once the ids are returned, the
\* persisted table is replaced by the table of these ids with every flag
\* false, and the collection loop starts on all of them.  Stated for a run
\* of either package; violated by package imdb_scrapper.
C36_OverwriteResets ==
  [][(runs' # runs /\ overwrite' /\ ValidPct(pct_titles')) =>
        /\ listed'
        /\ pc' # "raised" =>
             /\ pc' = "metadata"
             /\ i' = 0
             /\ store'.exists
             /\ AllPending(store')
             /\ metadata' = read_json(store')]_vars

\* ------------------------------ claims on collect_single_movie_reviews (2)

\* every page that carries a continuation key holds a review container
TokenPagesHaveReviews ==
  \A p \in 1..Len(feed) : PageKey(p) # 0 => PageBatch(p) >= 1

\* the engine has left the function, by return or by exception
EngineDone ==
  epc \in {"returned", "raised"}

\* C37: collect_single_movie_reviews terminates whatever continuation
\* requests fail, provided the initial fetch succeeded and every page with
\* a continuation key holds a review container: while the loop runs the
\* accumulated count is within the finite target, every iteration either
\* ends the loop or strictly increases the count, a continuation request
\* leads back to the loop with the count kept whether it fails or not, and
\* so the function is eventually left (or the bound on the requests of the
\* model is met).
C37_EngineTerminates ==
  /\ []((TokenPagesHaveReviews /\ epc \in {"loop", "more"} /\ res # 0) =>
          /\ title_reviews >= 0
          /\ title_reviews <= reviews_num_max)
  /\ [][(TokenPagesHaveReviews /\ epc = "loop" /\ res # 0) =>
          \/ EngineDone'
          \/ /\ epc' = "more"
             /\ title_reviews' > title_reviews]_vars
  /\ [][epc = "more" =>
          /\ epc' = "loop"
          /\ res' # 0
          /\ title_reviews' = title_reviews
          /\ reviews_num_max' = reviews_num_max]_vars
  /\ ((TokenPagesHaveReviews /\ epc \in {"loop", "more"} /\ res # 0)
        ~> (EngineDone \/ (epc = "more" /\ page_requests = MaxRequests)))

\* the engine returned after two failed continuation requests: it still
\* holds the first page and counted its containers three times
C37_Witness ==
  /\ TokenPagesHaveReviews
  /\ epc = "returned"
  /\ Len(feed) >= 2
  /\ res = 1
  /\ page_requests >= 3
  /\ title_reviews = 3 * PageBatch(1)
  /\ title_reviews > reviews_num_max

\* ---------------------------------------------- claims on collect_reviews (4)

\* C38: a call of collect_reviews with pct_reviews outside [0, 100] is
\* rejected with a configuration error before the Progress Store is read
\* and before any request: no run of collect_reviews goes on with such a
\* value (the call ends with an error and no table in memory).
C38_PctReviewsValidation ==
  [][(runs' # runs /\ ~ValidPct(config_pct_reviews')) =>
        /\ pc' \in {"invalid", "raised"}
        /\ prog' = "none"
        /\ metadata' = metadata]_vars

\* ------------------------------------------------ claims on collect_metadata (3)

\* C39: in collect_metadata a sleep follows every per-entity fetch attempt,
\* whether it succeeded or raised: whenever an entity is fetched, a sleep
\* has been taken since the previous fetch attempt of the run.
C39_SleepAfterEveryFetch ==
  [][(pc = "metadata"
        /\ \E e \in Ids : requests'[e] = requests[e] + 1) => slept]_vars

\* ------------------------------------------- claims on change_review_dtypes

\* C40: for every pair of non-negative integers a <= b embedded in a
\* helpfulness text, the upvotes and total_votes of the persisted partition
\* row equal a and b after change_review_dtypes narrowed them to int16,
\* values above 32767 included.
C40_NarrowingKeepsValues ==
  (cpc = "to_csv" /\ TwoIntegers(arg)) =>
     \A j \in 1..Len(arg.rows) :
        arg.rows[j].helpfulness.ints[1] <= arg.rows[j].helpfulness.ints[2] =>
           /\ result.rows[j].upvotes = arg.rows[j].helpfulness.ints[1]
           /\ result.rows[j].total_votes = arg.rows[j].helpfulness.ints[2]

====
